---- MODULE Spec2Model ----
(***************************************************************************)
(* A model of the numerical core of plotica: the range-indexed series      *)
(* (src/src/data_set.rs), the motion primitive (src/src/animate.rs), the   *)
(* two scales (src/src/scale.rs), the tick generator (src/src/grid.rs),    *)
(* the chart content (src/src/params.rs), the creation of a chart          *)
(* (src/src/manager.rs), the legend and the tooltip (src/src/legend.rs,    *)
(* src/src/tooltip.rs), the camera (src/src/camera.rs), the frames of a    *)
(* chart (src/src/main_chart.rs, src/src/preview.rs, src/src/screen.rs)    *)
(* and the touch gestures (src/src/controls.rs).                           *)
(*                                                                         *)
(* Each component has its own specification (SpecDataSet, SpecAnim,        *)
(* SpecAnimTest, SpecLogScale, SpecScale, SpecGrid, SpecContent,           *)
(* SpecChart, SpecCamera, SpecShoot, SpecGeometry, SpecMainChart,          *)
(* SpecControls); a specification leaves the variables of the other        *)
(* components at their initial values.                                     *)
(***************************************************************************)
EXTENDS Integers, Sequences, FiniteSets, TLC

VARIABLES
    data_points,             \* DataSet.data_points: the coord of each DataPoint, in order
    ds_built,                \* TRUE once DataSet::new has returned
    n,                       \* an AnimatedNumber {x0, x1, k, c, v0, t0, dt1, dt2}
    ANIMATED_NUMBERS_COUNT,  \* the process-wide counter of animate.rs
    fresh,                   \* Some(initial value) until set_value is first called on n
    clock,                   \* the host's monotonic clock: the latest timestamp passed in
    log_scale,               \* a LogScale
    linear_scale,            \* a LinearScale
    scale_kind,              \* T: Scale, the variant the chart works with: "log" or "linear"
    grid,                    \* a Grid {grid_base, grid_period, min_period, current_period, generations}
    content,                 \* a Content {data_sets, global_*, *_short_verbose_len}
    camera,                  \* a Camera {coord, coord_range, value, value_range, dirty,
                             \*   scale_time_us, screen_area, coord_grid, value_grid, ..}
    charts,                  \* ChartManager.charts: the number of charts created
    tooltip,                 \* a Tooltip {visible} and the matched_coord of its last draw
    main_chart,              \* a MainChart {camera, preview, legend, animation_frame_requested}
    controls,                \* a TouchControls {primary, secondary}, the touches on the
                             \*   canvas and the camera's pinch_coords
    call,                    \* the operation performed last, with its arguments
    ret,                     \* what that operation returned
    panicked                 \* TRUE once an operation has panicked

vars == <<data_points, ds_built, n, ANIMATED_NUMBERS_COUNT, fresh, clock, log_scale,
          linear_scale, scale_kind, grid, content, camera, charts, tooltip,
          main_chart, controls, call, ret, panicked>>

\* the variables of each component, and those outside it
dataSetVars == <<data_points, ds_built>>
animVars == <<n, ANIMATED_NUMBERS_COUNT, fresh, clock>>
scaleVars == <<log_scale, linear_scale, scale_kind>>
gridVars == <<grid>>
chartVars == <<content, camera, charts, tooltip>>
uiVars == <<main_chart, controls>>
OutsideDataSet == <<animVars, scaleVars, gridVars, chartVars, uiVars>>
OutsideAnim == <<dataSetVars, scaleVars, gridVars, chartVars, uiVars>>
OutsideScale == <<dataSetVars, animVars, gridVars, chartVars, uiVars>>
OutsideGrid == <<dataSetVars, scaleVars, chartVars, uiVars>>
OutsideContent == <<dataSetVars, animVars, gridVars, camera, charts, tooltip, uiVars>>
OutsideChart == <<dataSetVars, gridVars, n, fresh, uiVars>>
OutsideMainChart == <<dataSetVars, gridVars, scaleVars, n, fresh, camera, charts, tooltip,
                      controls>>
OutsideControls == <<dataSetVars, animVars, scaleVars, gridVars, chartVars>>

\* Option<T>
None == <<>>
Some(v) == <<v>>
IsSome(o) == o # None
Unwrap(o) == o[1]

Min2(a, b) == IF a <= b THEN a ELSE b
Abs(a) == IF a < 0 THEN -a ELSE a

(***************************************************************************)
(* f64 arithmetic, modelled exactly: a number is a fraction <<num, den>>   *)
(* in lowest terms with den > 0.  den = 0 stands for the non-finite        *)
(* results of a division by zero: <<1, 0>> is +inf, <<-1, 0>> is -inf and  *)
(* <<0, 0>> is NaN.                                                        *)
(***************************************************************************)
RECURSIVE GCD(_, _)
GCD(a, b) == IF b = 0 THEN a ELSE GCD(b, a % b)

Sign(a) == IF a > 0 THEN 1 ELSE IF a < 0 THEN -1 ELSE 0

Norm(num, den) ==
    IF den = 0 THEN <<Sign(num), 0>>
    ELSE LET s == Sign(den)
             g == GCD(Abs(num), Abs(den))
         IN <<(s * num) \div g, (s * den) \div g>>

R(i) == <<i, 1>>
Zero == R(0)
One == R(1)
NaN == <<0, 0>>
Finite(a) == a[2] # 0

RNeg(a) == <<-a[1], a[2]>>

RAdd(a, b) ==
    IF ~Finite(a) \/ ~Finite(b)
    THEN IF a = NaN \/ b = NaN \/ (~Finite(a) /\ ~Finite(b) /\ a # b) THEN NaN
         ELSE IF ~Finite(a) THEN a ELSE b
    ELSE LET g == GCD(a[2], b[2])
         IN Norm(a[1] * (b[2] \div g) + b[1] * (a[2] \div g), (a[2] \div g) * b[2])

RSub(a, b) == RAdd(a, RNeg(b))

RMul(a, b) ==
    IF ~Finite(a) \/ ~Finite(b)
    THEN <<Sign(a[1]) * Sign(b[1]), 0>>
    ELSE LET g1 == GCD(Abs(a[1]), b[2])
             g2 == GCD(Abs(b[1]), a[2])
         IN Norm((a[1] \div g1) * (b[1] \div g2), (a[2] \div g2) * (b[2] \div g1))

\* f64::recip
RRecip(a) ==
    IF ~Finite(a) THEN (IF a = NaN THEN NaN ELSE Zero)
    ELSE IF a[1] = 0 THEN <<1, 0>>
    ELSE Norm(a[2], a[1])

RDiv(a, b) == RMul(a, RRecip(b))

\* comparisons of finite numbers
RLe(a, b) == a[1] * b[2] <= b[1] * a[2]
RLt(a, b) == a[1] * b[2] < b[1] * a[2]
RMin(a, b) == IF RLe(a, b) THEN a ELSE b
RAbs(a) == <<Abs(a[1]), a[2]>>

(***************************************************************************)
(* Range-indexed series: src/src/data_set.rs                               *)
(***************************************************************************)
MaxLen == 4     \* longest generated series
MaxCoord == 4   \* generated coordinates are 1..MaxCoord

\* data.get(i).unwrap().coord, i counted from 0 as in the source
At(data, i) == data[i + 1]

IsSorted(data) == \A i \in 1..(Len(data) - 1) : data[i] <= data[i + 1]

\* the series of the spec's concrete scenario, in tenths: 1, 2, 2, 4, 5, 6, 7
ScenarioSeries == <<10, 20, 20, 40, 50, 60, 70>>

\* the inputs of DataSet::new: every series sorted by coordinate, duplicates
\* allowed, of at most MaxLen points, the empty one included
SeriesInputs ==
    {s \in UNION {[1..len -> 1..MaxCoord] : len \in 0..MaxLen} : IsSorted(s)}
        \cup {ScenarioSeries}

\* the coordinates asked for: below, at, between and above the generated
\* coordinates, and the bounds 1.5 and 4.2 of the scenario, in tenths
QueryCoords == 0..(MaxCoord + 1) \cup {15, 42}

\* DataSetMeta::from_data_points panics on an empty list: values.len() - 1
\* overflows (a panic in a debug build; in a release build it wraps and
\* values.get(0).unwrap() panics on the empty vector).  TRUE when it returns.
from_data_points(points) == Len(points) - 1 >= 0

\* the test of lines 102-103: middle_idx is the left bound
LeftFoundNoPredecessorCheck(data, left_bound, middle_idx) ==
    left_bound <= At(data, middle_idx)

LeftFound(data, left_bound, middle_idx) ==
    /\ left_bound <= At(data, middle_idx)
    /\ (middle_idx = 0 \/ left_bound > At(data, middle_idx - 1))

\* the while loop of bin_search_left_bound, from its state (left_idx, right_idx)
RECURSIVE LeftLoop(_, _, _, _)
LeftLoop(data, left_bound, left_idx, right_idx) ==
    IF ~(left_idx <= right_idx) THEN None
    ELSE LET middle_idx == (left_idx + right_idx) \div 2
             max_idx == Len(data) - 1
         IN IF LeftFound(data, left_bound, middle_idx) THEN Some(middle_idx)
            ELSE IF left_bound <= At(data, middle_idx)
                 THEN IF middle_idx = 0 THEN Some(0)
                      ELSE LeftLoop(data, left_bound, left_idx, middle_idx - 1)
                 ELSE IF middle_idx = max_idx THEN None
                      ELSE LeftLoop(data, left_bound, middle_idx + 1, right_idx)

bin_search_left_bound(data, left_bound) ==
    IF Len(data) = 0 THEN None
    ELSE LeftLoop(data, left_bound, 0, Len(data) - 1)

\* the test of lines 135-136: middle_idx is the right bound
RightFoundNoSuccessorCheck(data, right_bound, middle_idx) ==
    right_bound >= At(data, middle_idx)

RightFound(data, right_bound, middle_idx) ==
    /\ right_bound >= At(data, middle_idx)
    /\ (middle_idx = Len(data) - 1 \/ right_bound < At(data, middle_idx + 1))

\* the while loop of bin_search_right_bound
RECURSIVE RightLoop(_, _, _, _)
RightLoop(data, right_bound, left_idx, right_idx) ==
    IF ~(left_idx <= right_idx) THEN None
    ELSE LET middle_idx == (left_idx + right_idx) \div 2
             max_idx == Len(data) - 1
         IN IF RightFound(data, right_bound, middle_idx) THEN Some(middle_idx)
            ELSE IF right_bound >= At(data, middle_idx)
                 THEN IF middle_idx = max_idx THEN Some(max_idx)
                      ELSE RightLoop(data, right_bound, middle_idx + 1, right_idx)
                 ELSE IF middle_idx = 0 THEN None
                      ELSE RightLoop(data, right_bound, left_idx, middle_idx - 1)

bin_search_right_bound(data, right_bound) ==
    IF Len(data) = 0 THEN None
    ELSE RightLoop(data, right_bound, 0, Len(data) - 1)

\* the while loop of bin_search
RECURSIVE SearchLoop(_, _, _, _)
SearchLoop(data, x, left_idx, right_idx) ==
    IF ~(left_idx <= right_idx) THEN None
    ELSE LET middle_idx == (left_idx + right_idx) \div 2
             max_idx == Len(data) - 1
         IN IF x < At(data, middle_idx)
            THEN IF middle_idx = 0 THEN None
                 ELSE SearchLoop(data, x, left_idx, middle_idx - 1)
            ELSE IF x > At(data, middle_idx)
                 THEN IF middle_idx = max_idx THEN None
                      ELSE SearchLoop(data, x, middle_idx + 1, right_idx)
                 ELSE Some(middle_idx)

bin_search(data, x) ==
    IF Len(data) = 0 THEN None
    ELSE SearchLoop(data, x, 0, Len(data) - 1)

\* Some(&data_points[from..to]): the sub-range is kept as its two indices
SomeSlice(from, to) == <<from, to>>
SliceFrom(slice) == slice[1]
SliceTo(slice) == slice[2]

\* the indexing data_points[from..to] panics when from > to or to > len
SliceIndexPanics(data, from, to) == from > to \/ to > Len(data)

\* slice_by_coord with the range ending at right_idx, one point short
slice_by_coord_exclusive(data, coord_start, coord_end) ==
    LET left == bin_search_left_bound(data, coord_start)
        right == bin_search_right_bound(data, coord_end)
    IN IF IsSome(left) /\ IsSome(right)
       THEN SomeSlice(Unwrap(left), Unwrap(right))
       ELSE None

\* the value slice_by_coord returns (when the indexing does not panic)
slice_by_coord(data, coord_start, coord_end) ==
    LET left == bin_search_left_bound(data, coord_start)
        right == bin_search_right_bound(data, coord_end)
    IN IF IsSome(left) /\ IsSome(right)
       THEN SomeSlice(Unwrap(left), Unwrap(right) + 1)
       ELSE None

\* whether slice_by_coord panics in the indexing of line 78
slice_by_coord_panics(data, coord_start, coord_end) ==
    LET s == slice_by_coord(data, coord_start, coord_end)
    IN IsSome(s) /\ SliceIndexPanics(data, SliceFrom(s), SliceTo(s))

\* the coords of the points of a returned sub-range
SlicePoints(data, slice) ==
    [i \in 1..(SliceTo(slice) - SliceFrom(slice)) |-> At(data, SliceFrom(slice) + i - 1)]

NoCall == [op |-> "none"]

\* no DataSet has been built yet
InitDataSet == data_points = <<>> /\ ds_built = FALSE

\* no MainChart has been built and no touch is down
NoMainChart == [animation_frame_requested |-> FALSE]
MaxTouches == 3
MaxTouchPos == 1
TouchIds == 1..MaxTouches
TouchPositions == 0..MaxTouchPos
\* TouchControls::new; started is the history of the pinch events: the ids of
\* the touches of the last PinchStarted, until a PinchFinished follows
TouchControlsNew == [primary |-> None, secondary |-> None]
NoControls ==
    [touches |-> [id \in TouchIds |-> None], watcher |-> TouchControlsNew,
     pinch_coords |-> None, started |-> None]
InitUiIdle == main_chart = NoMainChart /\ controls = NoControls

\* DataSet::new(name, rgb, points)
DataSetNew ==
    /\ ~panicked /\ ~ds_built
    /\ \E points \in SeriesInputs :
        /\ call' = [op |-> "DataSet::new", points |-> points]
        /\ IF from_data_points(points)
           THEN data_points' = points /\ ds_built' = TRUE /\ panicked' = FALSE
           ELSE data_points' = data_points /\ ds_built' = FALSE /\ panicked' = TRUE
    /\ ret' = None
    /\ UNCHANGED OutsideDataSet

\* data_set.bin_search_left_bound(x)
BinSearchLeftBound ==
    /\ ~panicked /\ ds_built
    /\ \E x \in QueryCoords :
        /\ call' = [op |-> "bin_search_left_bound", x |-> x]
        /\ ret' = bin_search_left_bound(data_points, x)
    /\ UNCHANGED <<data_points, ds_built, panicked>>
    /\ UNCHANGED OutsideDataSet

\* data_set.bin_search_right_bound(x)
BinSearchRightBound ==
    /\ ~panicked /\ ds_built
    /\ \E x \in QueryCoords :
        /\ call' = [op |-> "bin_search_right_bound", x |-> x]
        /\ ret' = bin_search_right_bound(data_points, x)
    /\ UNCHANGED <<data_points, ds_built, panicked>>
    /\ UNCHANGED OutsideDataSet

\* data_set.bin_search(x)
BinSearch ==
    /\ ~panicked /\ ds_built
    /\ \E x \in QueryCoords :
        /\ call' = [op |-> "bin_search", x |-> x]
        /\ ret' = bin_search(data_points, x)
    /\ UNCHANGED <<data_points, ds_built, panicked>>
    /\ UNCHANGED OutsideDataSet

\* data_set.slice_by_coord(coord_start, coord_end)
SliceByCoord ==
    /\ ~panicked /\ ds_built
    /\ \E coord_start \in QueryCoords, coord_end \in QueryCoords :
        /\ call' = [op |-> "slice_by_coord", coord_start |-> coord_start,
                    coord_end |-> coord_end]
        /\ IF slice_by_coord_panics(data_points, coord_start, coord_end)
           THEN ret' = None /\ panicked' = TRUE
           ELSE /\ ret' = slice_by_coord(data_points, coord_start, coord_end)
                /\ panicked' = FALSE
    /\ UNCHANGED <<data_points, ds_built>>
    /\ UNCHANGED OutsideDataSet

(***************************************************************************)
(* Motion primitive: src/src/animate.rs                                    *)
(*                                                                         *)
(* Timestamps and durations are counted in units of TimeUnitUs             *)
(* microseconds.  get_value and set_value are homogeneous in time (k is    *)
(* per time squared, v0 and c are per time), so the unit changes no value. *)
(***************************************************************************)
TimeUnitUs == 10 ^ 5
DefaultDt1Us == 100000   \* AnimatedNumber::new: dt1_us
DefaultDt2Us == 100000   \* AnimatedNumber::new: dt2_us

MaxTime == 5    \* query and re-target times are 0..MaxTime
MaxCount == 5   \* cap of ANIMATED_NUMBERS_COUNT

Times == 0..MaxTime
Durations == {1, 2}                 \* the phase durations given to custom
AnimValues == {R(0), R(1), R(2)}    \* initial values and targets

Half == <<1, 2>>

custom(initial_value, dt1_us, dt2_us) ==
    [x0 |-> initial_value, x1 |-> initial_value, k |-> Zero, c |-> Zero,
     v0 |-> Zero, t0 |-> None, dt1 |-> dt1_us, dt2 |-> dt2_us]

new(initial_value) ==
    custom(initial_value, DefaultDt1Us \div TimeUnitUs, DefaultDt2Us \div TimeUnitUs)

\* the normalized distance covered us after t0, in the acceleration phase (line 48)
AccelDistance(m, us) ==
    RAdd(RDiv(RMul(RMul(m.k, R(us)), R(us)), R(2)), RMul(m.v0, R(us)))

\* the normalized distance covered us after t0, in the constant phase (lines 53-55)
ConstDistance(m, us) ==
    RAdd(RAdd(RDiv(RMul(RMul(m.k, R(m.dt1)), R(m.dt1)), R(2)), RMul(m.v0, R(m.dt1))),
         RMul(m.c, R(Min2(m.dt2, us - m.dt1))))

\* x0 + distance * (x1 - x0)
Interpolate(m, distance) == RAdd(RMul(distance, RSub(m.x1, m.x0)), m.x0)

\* a get_value that does not count the query that settles the number
get_value_settling_uncounted(m, time_us) ==
    IF m.t0 = None THEN [ret |-> m.x1, n |-> m, counted |-> 0]
    ELSE LET us == time_us - Unwrap(m.t0)
         IN IF us <= m.dt1
            THEN [ret |-> Interpolate(m, AccelDistance(m, us)), n |-> m, counted |-> 1]
            ELSE IF us >= m.dt2 + m.dt1
                 THEN [ret |-> m.x1, n |-> [m EXCEPT !.t0 = None], counted |-> 0]
                 ELSE [ret |-> Interpolate(m, ConstDistance(m, us)), n |-> m,
                       counted |-> 1]

\* get_value(&mut self, time_us): the value returned, the AnimatedNumber
\* afterwards, and the increments of ANIMATED_NUMBERS_COUNT
get_value(m, time_us) ==
    IF m.t0 = None THEN [ret |-> m.x1, n |-> m, counted |-> 0]
    ELSE LET us == time_us - Unwrap(m.t0)
         IN IF us <= m.dt1
            THEN [ret |-> Interpolate(m, AccelDistance(m, us)), n |-> m, counted |-> 1]
            ELSE IF us >= m.dt2 + m.dt1
                 THEN [ret |-> m.x1, n |-> [m EXCEPT !.t0 = None], counted |-> 1]
                 ELSE [ret |-> Interpolate(m, ConstDistance(m, us)), n |-> m,
                       counted |-> 1]

get_end_value(m) == m.x1

\* a restart from the previous target instead of the current position
RetargetStartAtOldTarget(m, time_us) == m.x1

\* line 73: the new x0 is the current interpolated value
RetargetStart(m, time_us) == get_value(m, time_us).ret

\* four times the velocity of lines 75-78
CarriedVelocityTimesFour(m, time_us) ==
    LET m1 == get_value(m, time_us).n
    IN IF m1.t0 # None
       THEN RMul(R(4), RAdd(m1.v0, RMul(m1.k, R(Min2(m1.dt1, time_us - Unwrap(m1.t0))))))
       ELSE Zero

\* lines 75-78: the velocity carried over, read after get_value may have cleared t0
CarriedVelocity(m, time_us) ==
    LET m1 == get_value(m, time_us).n
    IN IF m1.t0 # None
       THEN RAdd(m1.v0, RMul(m1.k, R(Min2(m1.dt1, time_us - Unwrap(m1.t0)))))
       ELSE Zero

\* the acceleration solved without the constant phase of the carried velocity
SolveKAccelPhaseOnly(v0, dt1, dt2) ==
    RDiv(RSub(One, RMul(v0, R(dt1))),
         RMul(R(dt1), RAdd(RMul(R(dt1), Half), R(dt2))))

\* lines 80-81
SolveK(v0, dt1, dt2) ==
    RDiv(RSub(One, RMul(v0, R(dt1 + dt2))),
         RMul(R(dt1), RAdd(RMul(R(dt1), Half), R(dt2))))

\* line 83
SolveC(k, v0, dt1) == RAdd(RMul(k, R(dt1)), v0)

\* a snap that leaves the animation running
SnapKeepsT0(m, new_value) == [m EXCEPT !.x1 = new_value]

\* lines 67-70: set_value(new_value, None)
Snap(m, new_value) == [m EXCEPT !.t0 = None, !.x1 = new_value]

\* lines 71-85: set_value(new_value, Some(time_us))
Retarget(m, new_value, time_us) ==
    LET x0 == RetargetStart(m, time_us)
        v0 == CarriedVelocity(m, time_us)
        k == SolveK(v0, m.dt1, m.dt2)
    IN [m EXCEPT !.x0 = x0, !.x1 = new_value, !.v0 = v0, !.k = k,
                 !.c = SolveC(k, v0, m.dt1), !.t0 = Some(time_us)]

\* set_value(&mut self, new_value, time_us: Option<f64>): the AnimatedNumber
\* afterwards and the increments of ANIMATED_NUMBERS_COUNT
set_value(m, new_value, time_us) ==
    IF time_us = None
    THEN [n |-> Snap(m, new_value), counted |-> 0]
    ELSE [n |-> Retarget(m, new_value, Unwrap(time_us)),
          counted |-> 1 + get_value(m, Unwrap(time_us)).counted]

\* the motion primitive in the specifications of the other components
InitAnimIdle ==
    n = new(Zero) /\ ANIMATED_NUMBERS_COUNT = 1 /\ fresh = Some(Zero) /\ clock = 0

\* n.get_value(time_us) for a time of T, the clock never running backwards
GetValueIn(T) ==
    \E time_us \in T :
        LET g == get_value(n, time_us)
        IN /\ time_us >= clock /\ clock' = time_us
           /\ ANIMATED_NUMBERS_COUNT + g.counted <= MaxCount
           /\ call' = [op |-> "get_value", time_us |-> time_us]
           /\ ret' = Some(g.ret)
           /\ n' = g.n
           /\ ANIMATED_NUMBERS_COUNT' = ANIMATED_NUMBERS_COUNT + g.counted
           /\ UNCHANGED <<fresh, panicked, OutsideAnim>>

\* n.set_value(new_value, Some(time_us)) for a time of T
SetValueIn(T) ==
    \E new_value \in AnimValues, time_us \in T :
        LET s == set_value(n, new_value, Some(time_us))
        IN /\ time_us >= clock /\ clock' = time_us
           /\ ANIMATED_NUMBERS_COUNT + s.counted <= MaxCount
           /\ call' = [op |-> "set_value", new_value |-> new_value,
                       time_us |-> Some(time_us)]
           /\ ret' = None
           /\ n' = s.n
           /\ ANIMATED_NUMBERS_COUNT' = ANIMATED_NUMBERS_COUNT + s.counted
           /\ fresh' = None
           /\ UNCHANGED <<panicked, OutsideAnim>>

\* n.set_value(new_value, None)
SetValueNone ==
    \E new_value \in AnimValues :
        LET s == set_value(n, new_value, None)
        IN /\ call' = [op |-> "set_value", new_value |-> new_value, time_us |-> None]
           /\ ret' = None
           /\ n' = s.n
           /\ ANIMATED_NUMBERS_COUNT' = ANIMATED_NUMBERS_COUNT + s.counted
           /\ fresh' = None
           /\ UNCHANGED <<clock, panicked, OutsideAnim>>

GetValue == GetValueIn(Times)
SetValue == SetValueIn(Times)

\* a timestamp given in microseconds
Us(time_us) == time_us \div TimeUnitUs

\* the times of test_animated_number (lines 105-113)
TestTimes ==
    {Us(1000000), Us(1200000), Us(1300000), Us(1500000), Us(1700000), Us(1900000),
     Us(2000000)}

TestGetValue == GetValueIn(TestTimes)
TestSetValue == SetValueIn(TestTimes)

(***************************************************************************)
(* Logarithmic scale: src/src/scale.rs                                     *)
(*                                                                         *)
(* log10 is modelled exactly on the powers of ten: the values of the       *)
(* model are global_min + 10^e - MIN_VALUE_TO_LOG, so that every argument  *)
(* of log10 is a power of ten.                                             *)
(***************************************************************************)
MIN_VALUE_TO_LOG == 1000
MIN_LOG_VALUE == 3

MaxLogExp == 5       \* values go up to global_min + 10^MaxLogExp - 1000
MaxScaleCoord == 2   \* window coordinates are 0..MaxScaleCoord

ScaleCoords == 0..MaxScaleCoord
ScaleGlobalMins == {0, 50}
LogValues(global_min) ==
    {global_min + 10 ^ e - MIN_VALUE_TO_LOG : e \in MIN_LOG_VALUE..MaxLogExp}

\* f64::log10, on the powers of ten
Log10(x) == CHOOSE e \in 0..9 : 10 ^ e = x

\* LogScale::new(content), from the global bounds of the content
LogScaleNew(global_coord_min, global_coord_max, global_value_min, global_value_max) ==
    LET coord_range == global_coord_max - global_coord_min
        value_min_log == MIN_LOG_VALUE
        value_max_log == Log10(global_value_max - global_value_min + MIN_VALUE_TO_LOG)
    IN [coord_min |-> global_coord_min,
        coord_max |-> global_coord_max,
        coord_range |-> coord_range,
        coord_range_recip |-> RRecip(R(coord_range)),
        value_min |-> global_value_min,
        value_max |-> global_value_max,
        value_global_min |-> global_value_min,
        value_log_base |-> value_min_log,
        value_log_range |-> value_max_log - value_min_log,
        value_log_range_recip |-> RRecip(R(value_max_log - value_min_log))]

\* the two checks of reframe that panic (lines 150-158)
reframe_panics(coord_min, coord_max, value_min, value_max) ==
    coord_max - coord_min = 0 \/ value_max - value_min = 0

\* LogScale::reframe past its checks (lines 159-169): value_min_log is
\* computed from self.value_min, the field as it is before line 166 assigns it
LogScaleReframe(s, coord_min, coord_max, value_min, value_max) ==
    LET coord_range == coord_max - coord_min
        value_min_log == Log10(s.value_min - s.value_global_min + MIN_VALUE_TO_LOG)
        value_max_log == Log10(value_max - s.value_global_min + MIN_VALUE_TO_LOG)
    IN [s EXCEPT !.coord_max = coord_max,
                 !.coord_min = coord_min,
                 !.coord_range = coord_range,
                 !.coord_range_recip = RRecip(R(coord_range)),
                 !.value_max = value_max,
                 !.value_min = value_min,
                 !.value_log_base = value_min_log,
                 !.value_log_range = value_max_log - value_min_log,
                 !.value_log_range_recip = RRecip(R(value_max_log - value_min_log))]

\* LogScale::normalize_value
LogScaleNormalizeValue(s, value) ==
    RMul(R(Log10(value - s.value_global_min + MIN_VALUE_TO_LOG) - s.value_log_base),
         s.value_log_range_recip)

\* LinearScale::new(content), from the global bounds of the content
LinearScaleNew(global_coord_min, global_coord_max, global_value_min, global_value_max) ==
    LET coord_range == global_coord_max - global_coord_min
        value_range == global_value_max - global_value_min
    IN [coord_min |-> global_coord_min,
        coord_max |-> global_coord_max,
        coord_range |-> coord_range,
        coord_range_recip |-> RRecip(R(coord_range)),
        value_min |-> global_value_min,
        value_max |-> global_value_max,
        value_range |-> value_range,
        value_range_recip |-> RRecip(R(value_range))]

\* LinearScale::reframe checking the coord range only
linear_reframe_panics_coord_only(coord_min, coord_max, value_min, value_max) ==
    coord_max - coord_min = 0

\* the two checks of LinearScale::reframe that panic (lines 56-63)
linear_reframe_panics(coord_min, coord_max, value_min, value_max) ==
    coord_max - coord_min = 0 \/ value_max - value_min = 0

\* LinearScale::reframe past its checks (lines 64-71)
LinearScaleReframe(s, coord_min, coord_max, value_min, value_max) ==
    LET coord_range == coord_max - coord_min
        value_range == value_max - value_min
    IN [s EXCEPT !.coord_max = coord_max,
                 !.coord_min = coord_min,
                 !.coord_range = coord_range,
                 !.coord_range_recip = RRecip(R(coord_range)),
                 !.value_max = value_max,
                 !.value_min = value_min,
                 !.value_range = value_range,
                 !.value_range_recip = RRecip(R(value_range))]

\* normalize_coord with the window's start left out
NormalizeCoordFromZero(s, coord) == RMul(coord, s.coord_range_recip)

\* LinearScale::normalize_coord; coord is an f64
LinearScaleNormalizeCoord(s, coord) == RMul(RSub(coord, R(s.coord_min)), s.coord_range_recip)

\* LinearScale::denormalize_coord
LinearScaleDenormalizeCoord(s, normalized_coord) ==
    RAdd(RMul(normalized_coord, R(s.coord_range)), R(s.coord_min))

\* LogScale::normalize_coord
LogScaleNormalizeCoord(s, coord) == RMul(RSub(coord, R(s.coord_min)), s.coord_range_recip)

\* LogScale::denormalize_coord
LogScaleDenormalizeCoord(s, normalized_coord) ==
    RAdd(RMul(normalized_coord, R(s.coord_range)), R(s.coord_min))

\* the scale the chart works with, and its two coordinate conversions
Scale == IF scale_kind = "log" THEN log_scale ELSE linear_scale
normalize_coord(coord) ==
    IF scale_kind = "log" THEN LogScaleNormalizeCoord(log_scale, coord)
    ELSE LinearScaleNormalizeCoord(linear_scale, coord)
denormalize_coord(normalized_coord) ==
    IF scale_kind = "log" THEN LogScaleDenormalizeCoord(log_scale, normalized_coord)
    ELSE LinearScaleDenormalizeCoord(linear_scale, normalized_coord)

\* the values a linear scale is framed on
LinearValues == {0, 50, 9000}

\* the coords the conversions are asked about: the ScaleCoords and the points
\* halfway between them
CoordQueries == {<<c, 1>> : c \in ScaleCoords} \cup {Norm(2 * c + 1, 2) : c \in ScaleCoords}

\* the scales in the specifications of the other components
InitScaleIdle ==
    /\ log_scale = LogScaleNew(0, 1, 0, 9000)
    /\ linear_scale = LinearScaleNew(0, 1, 0, 9000)
    /\ scale_kind = "log"

\* log_scale.reframe(coord_min, coord_max, value_min, value_max) on a window:
\* its bounds are in order, and may coincide
Reframe ==
    /\ ~panicked /\ scale_kind = "log"
    /\ \E coord_min \in ScaleCoords, coord_max \in ScaleCoords,
          value_min \in LogValues(log_scale.value_global_min),
          value_max \in LogValues(log_scale.value_global_min) :
        /\ coord_min <= coord_max /\ value_min <= value_max
        /\ call' = [op |-> "reframe", coord_min |-> coord_min, coord_max |-> coord_max,
                    value_min |-> value_min, value_max |-> value_max]
        /\ IF reframe_panics(coord_min, coord_max, value_min, value_max)
           THEN panicked' = TRUE /\ log_scale' = log_scale
           ELSE /\ panicked' = FALSE
                /\ log_scale' = LogScaleReframe(log_scale, coord_min, coord_max,
                                                value_min, value_max)
    /\ ret' = None
    /\ UNCHANGED <<linear_scale, scale_kind, OutsideScale>>

\* linear_scale.reframe(coord_min, coord_max, value_min, value_max) on a window
LinearReframe ==
    /\ ~panicked /\ scale_kind = "linear"
    /\ \E coord_min \in ScaleCoords, coord_max \in ScaleCoords,
          value_min \in LinearValues, value_max \in LinearValues :
        /\ coord_min <= coord_max /\ value_min <= value_max
        /\ call' = [op |-> "reframe", coord_min |-> coord_min, coord_max |-> coord_max,
                    value_min |-> value_min, value_max |-> value_max]
        /\ IF linear_reframe_panics(coord_min, coord_max, value_min, value_max)
           THEN panicked' = TRUE /\ linear_scale' = linear_scale
           ELSE /\ panicked' = FALSE
                /\ linear_scale' = LinearScaleReframe(linear_scale, coord_min, coord_max,
                                                      value_min, value_max)
    /\ ret' = None
    /\ UNCHANGED <<log_scale, scale_kind, OutsideScale>>

\* scale.normalize_coord(coord), on either variant
NormalizeCoord ==
    /\ ~panicked
    /\ \E coord \in CoordQueries :
        /\ call' = [op |-> "normalize_coord", x |-> coord]
        /\ ret' = Some(normalize_coord(coord))
    /\ UNCHANGED <<scaleVars, panicked, OutsideScale>>

\* scale.denormalize_coord(normalized_coord), on either variant
DenormalizeCoord ==
    /\ ~panicked
    /\ \E normalized_coord \in {Zero, Half, One} :
        /\ call' = [op |-> "denormalize_coord", x |-> normalized_coord]
        /\ ret' = Some(denormalize_coord(normalized_coord))
    /\ UNCHANGED <<scaleVars, panicked, OutsideScale>>

\* log_scale.normalize_value(value)
NormalizeValue ==
    /\ ~panicked /\ scale_kind = "log"
    /\ \E value \in LogValues(log_scale.value_global_min) :
        /\ call' = [op |-> "normalize_value", value |-> value]
        /\ ret' = Some(LogScaleNormalizeValue(log_scale, value))
    /\ UNCHANGED <<scaleVars, panicked, OutsideScale>>

(***************************************************************************)
(* Tick generator: src/src/grid.rs                                         *)
(*                                                                         *)
(* Positions and periods are exact fractions.  (x).log2().round() is       *)
(* computed exactly: for a fraction x > 0 it is the j with                 *)
(* 2^(2j-1) <= x*x < 2^(2j+1); log2(x) is never half-way between two       *)
(* integers when x is a fraction.                                          *)
(***************************************************************************)
MaxGridTime == 2     \* timestamps given to get_ticks are 0..MaxGridTime
MaxGridCount == 8    \* cap of ANIMATED_NUMBERS_COUNT in the grid's specification

GridTimes == 0..MaxGridTime
\* min_period of Grid::new after line 36: none, or a day on a range of four days
GridMinPeriods == {None, Some(<<1, 4>>)}
\* the windows <<normalized_min_value, normalized_max_value>> asked for
GridWindows == {<<Zero, One>>, <<<<1, 4>>, <<3, 4>>>>, <<<<-1, 1>>, One>>}
GridMaxTicks == {1, 3, 8}

\* f64 as integer: truncation toward zero
RTrunc(a) == IF a[1] >= 0 THEN a[1] \div a[2] ELSE -((-a[1]) \div a[2])

\* f64 %: the remainder has the sign of the dividend
RMod(a, b) ==
    IF ~Finite(a) \/ ~Finite(b) \/ b[1] = 0 THEN NaN
    ELSE RSub(a, RMul(b, R(RTrunc(RDiv(a, b)))))

\* f64::powi(2.0, j)
Pow2(j) == IF j >= 0 THEN R(2 ^ j) ELSE <<1, 2 ^ (-j)>>

\* the exponents (x).log2().round() takes in the model
Log2Exps == -8..8

\* (x).log2().round() as i32, for a fraction x > 0
RoundLog2(x) ==
    CHOOSE j \in Log2Exps :
        RLe(Pow2(2 * j - 1), RMul(x, x)) /\ RLt(RMul(x, x), Pow2(2 * j + 1))

\* Grid::new, from line 39 on
GridNew(min_period) ==
    LET grid_period ==
            IF IsSome(min_period)
            THEN IF RLt(One, Unwrap(min_period)) THEN Unwrap(min_period)
                 ELSE RSub(One, RMod(One, Unwrap(min_period)))
            ELSE One
        half_back == RMul(grid_period, <<-1, 2>>)
        grid_base ==
            IF IsSome(min_period)
            THEN RSub(half_back, RMod(half_back, Unwrap(min_period)))
            ELSE half_back
    IN [grid_base |-> grid_base,
        grid_period |-> grid_period,
        min_period |-> min_period,
        current_period |-> grid_period,
        generations |-> <<[period |-> grid_period, alpha |-> new(One)]>>]

\* lines 77-86: the period of this call
ChoosePeriod(g, range, max_ticks) ==
    LET period ==
            RMul(g.grid_period,
                 Pow2(RoundLog2(RDiv(RDiv(range, g.grid_period), R(max_ticks)))))
    IN IF IsSome(g.min_period) /\ RLt(period, Unwrap(g.min_period))
       THEN Unwrap(g.min_period)
       ELSE period

\* lines 96-99: a generation whose tick count is outside the band of the
\* current one
OutOfBand(generation, period, range) ==
    LET current_ticks_number == RDiv(range, period)
        this_ticks_number == RDiv(range, generation.period)
    IN \/ RLt(RMul(current_ticks_number, R(4)), this_ticks_number)
       \/ RLt(this_ticks_number, RMul(current_ticks_number, <<1, 4>>))

\* lines 92-104, for one generation: the generation afterwards and the
\* increments of ANIMATED_NUMBERS_COUNT
Retargeted(generation, moved) ==
    [generation |-> [generation EXCEPT !.alpha = moved.n], counted |-> moved.counted]

Retarget1(generation, period, range, time_us) ==
    Retargeted(generation,
               set_value(generation.alpha,
                         IF generation.period = period THEN One ELSE Zero,
                         IF generation.period # period
                            /\ OutOfBand(generation, period, range)
                         THEN None ELSE Some(time_us)))

RECURSIVE SumCounted(_, _)
SumCounted(steps, i) ==
    IF i > Len(steps) THEN 0 ELSE steps[i].counted + SumCounted(steps, i + 1)

\* lines 105-110: the generation of the new period, if there is none yet
WithCreated(g, period, steps, created) ==
    LET generation_to_be_created ==
            \A i \in DOMAIN g.generations : g.generations[i].period # period
        moved == [i \in DOMAIN steps |-> steps[i].generation]
    IN [grid |-> [g EXCEPT !.current_period = period,
                           !.generations =
                               IF generation_to_be_created
                               THEN Append(moved, [period |-> period, alpha |-> created.n])
                               ELSE moved],
        counted |-> SumCounted(steps, 1)
                    + (IF generation_to_be_created THEN created.counted ELSE 0)]

\* lines 88-111: the period has changed
ChangePeriod(g, period, range, time_us) ==
    WithCreated(g, period,
                [i \in DOMAIN g.generations |->
                    Retarget1(g.generations[i], period, range, time_us)],
                set_value(new(<<2, 5>>), One, Some(time_us)))

\* lines 112-115: the period has not changed
Prune(g, time_us) ==
    IF Len(g.generations) > 1
    THEN LET steps == [i \in DOMAIN g.generations |->
                         LET polled == get_value(g.generations[i].alpha, time_us)
                         IN [generation |-> [g.generations[i] EXCEPT !.alpha = polled.n],
                             value |-> polled.ret,
                             counted |-> polled.counted]]
             Retained(step) == RLt(Zero, step.value)
             kept == SelectSeq(steps, Retained)
         IN [grid |-> [g EXCEPT !.generations =
                                    [i \in DOMAIN kept |-> kept[i].generation]],
             counted |-> SumCounted(steps, 1)]
    ELSE [grid |-> g, counted |-> 0]

\* lines 88-115
UpdateGenerations(g, period, range, time_us) ==
    IF g.current_period # period
    THEN ChangePeriod(g, period, range, time_us)
    ELSE Prune(g, time_us)

\* the first tick two periods further back
TickStartTwoPeriodsBack(grid_base, period, normalized_min_value) ==
    RSub(RSub(normalized_min_value, RMod(RSub(normalized_min_value, grid_base), period)),
         period)

\* lines 122-123: the first tick of a generation
TickStart(grid_base, period, normalized_min_value) ==
    RAdd(RSub(normalized_min_value, RMod(RSub(normalized_min_value, grid_base), period)),
         period)

\* lines 132-136: the alpha of a tick, halved near the edges of the window
TickAlpha(normalized_value, alpha, left_bound, right_bound) ==
    IF RLt(normalized_value, left_bound) \/ RLt(right_bound, normalized_value)
    THEN RMul(alpha, Half)
    ELSE alpha

\* lines 128-140: the ticks of one generation.  end_alpha is kept as the set
\* of the end_alpha values the tick may carry: one value here, more after a
\* merge whose outcome depends on how sort_unstable_by orders equal ticks
RECURSIVE TickLoop(_, _, _, _, _, _)
TickLoop(normalized_value, period, alpha, end_alpha, normalized_min_value, normalized_max_value) ==
    IF RLt(normalized_value, normalized_max_value)
    THEN <<[normalized_value |-> normalized_value,
            value |-> Zero,
            alpha |-> TickAlpha(normalized_value, alpha,
                                RAdd(normalized_min_value, RMul(period, <<1, 4>>)),
                                RSub(normalized_max_value, RMul(period, <<1, 4>>))),
            end_alpha |-> {end_alpha}]>>
         \o TickLoop(RAdd(normalized_value, period), period, alpha, end_alpha,
                     normalized_min_value, normalized_max_value)
    ELSE <<>>

\* lines 118-141, from generation i on: the ticks, the generations afterwards
\* and the increments of ANIMATED_NUMBERS_COUNT
RECURSIVE CollectTicks(_, _, _, _, _)
CollectTicks(g, i, time_us, normalized_min_value, normalized_max_value) ==
    IF i > Len(g.generations) THEN [ticks |-> <<>>, grid |-> g, counted |-> 0]
    ELSE LET generation == g.generations[i]
             polled == get_value(generation.alpha, time_us)
             mine == TickLoop(TickStart(g.grid_base, generation.period,
                                        normalized_min_value),
                              generation.period, polled.ret,
                              get_end_value(polled.n),
                              normalized_min_value, normalized_max_value)
             rest == CollectTicks([g EXCEPT !.generations[i].alpha = polled.n], i + 1,
                                  time_us, normalized_min_value, normalized_max_value)
         IN [ticks |-> mine \o rest.ticks, grid |-> rest.grid,
             counted |-> polled.counted + rest.counted]

\* lines 143-148: a comes before b
TickBefore(a, b) ==
    \/ RLt(a.normalized_value, b.normalized_value)
    \/ a.normalized_value = b.normalized_value /\ RLt(b.alpha, a.alpha)

\* ticks[i..] inserted one by one into sorted
RECURSIVE SortTicks(_, _, _)
SortTicks(ticks, i, sorted) ==
    IF i > Len(ticks) THEN sorted
    ELSE LET t == ticks[i]
             ahead == Cardinality({j \in DOMAIN sorted : ~TickBefore(t, sorted[j])})
         IN SortTicks(ticks, i + 1,
                      SubSeq(sorted, 1, ahead) \o <<t>>
                          \o SubSeq(sorted, ahead + 1, Len(sorted)))

\* lines 149-158: dedup_by over sorted[i..]; out holds the ticks retained so
\* far and head_alpha the alpha the last of them was sorted by.  A tick that
\* is equal to the retained one in position and alpha may have been sorted
\* before it: its end_alpha is one the retained tick may carry
RECURSIVE DedupTicks(_, _, _, _)
DedupTicks(sorted, i, out, head_alpha) ==
    IF i > Len(sorted) THEN out
    ELSE LET a == sorted[i]
         IN IF out # <<>> /\ a.normalized_value = out[Len(out)].normalized_value
            THEN LET b == out[Len(out)]
                     merged ==
                         [b EXCEPT !.alpha = IF One \in a.end_alpha \/ One \in b.end_alpha
                                             THEN One ELSE @,
                                   !.end_alpha = IF a.alpha = head_alpha
                                                 THEN @ \cup a.end_alpha ELSE @]
                 IN DedupTicks(sorted, i + 1, [out EXCEPT ![Len(out)] = merged],
                               head_alpha)
            ELSE DedupTicks(sorted, i + 1, Append(out, a), a.alpha)

\* the merge without dedup_by
MergeTicksSortOnly(g, ticks) ==
    IF Len(g.generations) > 1 THEN SortTicks(ticks, 1, <<>>) ELSE ticks

\* lines 142-159
MergeTicks(g, ticks) ==
    IF Len(g.generations) > 1
    THEN DedupTicks(SortTicks(ticks, 1, <<>>), 1, <<>>, Zero)
    ELSE ticks

\* lines 142-160: the ticks returned, the grid afterwards and the increments
\* of ANIMATED_NUMBERS_COUNT
Collected(updated, collected) ==
    [ticks |-> MergeTicks(collected.grid, collected.ticks),
     grid |-> collected.grid,
     counted |-> updated.counted + collected.counted]

\* lines 117-160
Updated(updated, time_us, normalized_min_value, normalized_max_value) ==
    Collected(updated,
              CollectTicks(updated.grid, 1, time_us, normalized_min_value,
                           normalized_max_value))

\* Grid::get_ticks: the ticks returned, the grid afterwards and the
\* increments of ANIMATED_NUMBERS_COUNT
get_ticks(g, time_us, normalized_min_value, normalized_max_value, max_ticks) ==
    LET range == RSub(normalized_max_value, normalized_min_value)
    IN Updated(UpdateGenerations(g, ChoosePeriod(g, range, max_ticks), range, time_us),
               time_us, normalized_min_value, normalized_max_value)

\* the grid in the specifications of the other components
InitGridIdle == grid = GridNew(None)

\* grid.get_ticks(time_us, normalized_min_value, normalized_max_value, max_ticks)
GetTicks ==
    /\ ~panicked
    /\ \E time_us \in GridTimes, window \in GridWindows, max_ticks \in GridMaxTicks :
        \E got \in {get_ticks(grid, time_us, window[1], window[2], max_ticks)} :
           /\ time_us >= clock /\ clock' = time_us
           /\ ANIMATED_NUMBERS_COUNT + got.counted <= MaxGridCount
           /\ ANIMATED_NUMBERS_COUNT' = ANIMATED_NUMBERS_COUNT + got.counted
           /\ grid' = got.grid
           /\ ret' = got.ticks
           /\ call' = [op |-> "get_ticks", time_us |-> time_us,
                       normalized_min_value |-> window[1],
                       normalized_max_value |-> window[2], max_ticks |-> max_ticks]
    /\ UNCHANGED <<n, fresh, panicked, OutsideGrid>>

(***************************************************************************)
(* Chart content: src/src/params.rs, with coord_type and value_type        *)
(* DataType::Number.  Coordinates and values are whole numbers.            *)
(***************************************************************************)
F64_MAX == 1000000     \* stands for f64::MAX: above every number of the model
F64_MIN == -1000000    \* stands for f64::MIN: below every number of the model

ContentNames == {"a", "b"}
ContentCoords == {1, 2}
ContentValues == {0, 9000}
ContentLens == 0..2

\* the lists of numbers handed to parse_and_add_data_set: in any order, with
\* repeated numbers, empty, and of different lengths
NumberLists(numbers) == UNION {[1..len -> numbers] : len \in ContentLens}

\* and lists of three: a coordinate repeated by points that are not
\* neighbours as given, and three coordinates out of order
CoordInputs == NumberLists(ContentCoords) \cup {<<1, 2, 1>>, <<3, 1, 2>>}
ValueInputs == NumberLists(ContentValues) \cup {<<0, 9000, 0>>}

\* Result<(), String>
Ok == <<"Ok">>
Err(message) == <<"Err", message>>
IsErr(result) == result[1] = "Err"

Max2(a, b) == IF a >= b THEN a ELSE b

\* lines 172-195: the characters of value_abs < 1000 without its suffix, as
\* in "5.00", "50.0" and "500"
ConciseDigits(value_abs) ==
    IF value_abs < 10 THEN 4 ELSE IF value_abs < 100 THEN 4 ELSE 3

\* VerboseFormat::NumberConcise (lines 159-196): the number of characters of
\* a formatted whole number 0 <= value < 1000000: "0.00e0" for 0, the digits
\* below 1000, the digits of the thousands and "K" from 1000 on
ConciseLen(value) ==
    IF value = 0 THEN 6
    ELSE IF value < 1000 THEN ConciseDigits(value)
    ELSE ConciseDigits(value \div 1000) + 1

\* the longest label of the first 30 numbers
LongestLabel(numbers) ==
    CHOOSE len \in {ConciseLen(numbers[i]) : i \in DOMAIN numbers \cap 1..30} :
        \A i \in DOMAIN numbers \cap 1..30 : ConciseLen(numbers[i]) <= len

\* Content::new
ContentNew ==
    [data_sets |-> <<>>,
     global_coord_min |-> F64_MAX, global_coord_max |-> F64_MIN,
     global_value_min |-> F64_MAX, global_value_max |-> F64_MIN,
     coord_short_verbose_len |-> 0, value_short_verbose_len |-> 0]

\* lines 444-448: coords.into_iter().zip(values)
Zip(coords, values) ==
    [i \in 1..Min2(Len(coords), Len(values)) |-> [coord |-> coords[i], value |-> values[i]]]

\* the place of points[i] after a stable sort by coord
SortedPlace(points, i) ==
    1 + Cardinality({j \in DOMAIN points :
                        \/ points[j].coord < points[i].coord
                        \/ points[j].coord = points[i].coord /\ j < i})

\* the points left in the order given
Unsorted(points) == points

\* line 450: data_points.sort_by(coord)
SortByCoord(points) ==
    [place \in DOMAIN points |->
        points[CHOOSE i \in DOMAIN points : SortedPlace(points, i) = place]]

\* lines 451-463: two neighbours of the sorted points share a coordinate
HasDuplicateCoord(points) ==
    \E index \in 1..(Len(points) - 1) :
        points[index].coord = points[index + 1].coord

\* DataSetMeta::from_data_points: the smallest and the largest value
MetaOf(points) ==
    [min |-> CHOOSE v \in {points[i].value : i \in DOMAIN points} :
                \A i \in DOMAIN points : v <= points[i].value,
     max |-> CHOOSE v \in {points[i].value : i \in DOMAIN points} :
                \A i \in DOMAIN points : v >= points[i].value]

\* DataSet::new
NewDataSet(name, points) ==
    [name |-> name, data_points |-> points, meta |-> MetaOf(points),
     alpha |-> new(One)]

\* lines 465-502: the content with data_set added
AddDataSet(c, data_set) ==
    [data_sets |-> Append(c.data_sets, data_set),
     global_coord_min |-> Min2(c.global_coord_min, data_set.data_points[1].coord),
     global_coord_max |->
         Max2(c.global_coord_max, data_set.data_points[Len(data_set.data_points)].coord),
     global_value_min |-> Min2(c.global_value_min, data_set.meta.min),
     global_value_max |-> Max2(c.global_value_max, data_set.meta.max),
     coord_short_verbose_len |->
         Max2(c.coord_short_verbose_len,
              LongestLabel([i \in DOMAIN data_set.data_points |->
                               data_set.data_points[i].coord])),
     value_short_verbose_len |->
         Max2(c.value_short_verbose_len,
              LongestLabel([i \in DOMAIN data_set.data_points |->
                               data_set.data_points[i].value]))]

\* Content::parse_and_add_data_set: what it returns and the content afterwards
parse_and_add_data_set(c, name, coords, values) ==
    IF Len(coords) # Len(values)
    THEN [ret |-> Err("coords and values have different lengths"), content |-> c]
    ELSE IF coords = <<>>
    THEN [ret |-> Err("data set is empty"), content |-> c]
    ELSE IF \E i \in DOMAIN c.data_sets : c.data_sets[i].name = name
    THEN [ret |-> Err("duplicate data set name"), content |-> c]
    ELSE IF HasDuplicateCoord(SortByCoord(Zip(coords, values)))
    THEN [ret |-> Err("duplicate coordinate found"), content |-> c]
    ELSE [ret |-> Ok,
          content |-> AddDataSet(c, NewDataSet(name, SortByCoord(Zip(coords, values))))]

\* screen_area.scale: the window the scale of the camera's screen area is
\* focused on
Focus(coord_min, coord_max, value_min, value_max) ==
    [coord_min |-> coord_min, coord_max |-> coord_max,
     value_min |-> value_min, value_max |-> value_max]

\* Camera::new, lines 58-82: the fields before update_by_content, of a camera
\* that draws both rows of ticks, on a content of coord_type and value_type
\* DataType::Number; the scale of its screen area is focused by CameraNew
CameraBlank ==
    [coord |-> new(Zero), coord_range |-> new(Zero), value |-> new(Zero),
     value_range |-> new(Zero), dirty |-> FALSE,
     scale_time_us |-> 0, screen_area |-> Focus(Zero, One, Zero, One),
     coord_ticks_height |-> 1, value_ticks_width |-> 1,
     coord_grid |-> GridNew(None), value_grid |-> GridNew(None)]

\* no chart in the specifications of the other components
InitChartIdle ==
    /\ content = ContentNew /\ camera = CameraBlank /\ charts = 0
    /\ tooltip = [visible |-> FALSE, matched_coord |-> None]

\* content.parse_and_add_data_set(name, coords, values, rgb)
ParseAndAddDataSet ==
    /\ ~panicked
    /\ \E name \in ContentNames, coords \in CoordInputs, values \in ValueInputs :
        \E done \in {parse_and_add_data_set(content, name, coords, values)} :
            /\ content' = done.content
            /\ ret' = done.ret
            /\ call' = [op |-> "parse_and_add_data_set", name |-> name,
                        coords |-> coords, values |-> values]
    /\ UNCHANGED <<scaleVars, panicked, OutsideContent>>

(***************************************************************************)
(* Chart creation, legend and tooltip: src/src/manager.rs,                 *)
(* src/src/legend.rs, src/src/tooltip.rs; the camera: src/src/camera.rs.   *)
(*                                                                         *)
(* The page holds the container of the chart, and the configuration sorts  *)
(* the data sets by DataSetSorting::None.  Coordinates are even numbers,   *)
(* so that the middle of two of them is a whole number.                    *)
(***************************************************************************)
MaxChartCount == 7    \* cap of ANIMATED_NUMBERS_COUNT in the chart's specifications

\* the data sets of the "dataSets" of raw_params: two points far apart, a
\* single point, three points of one value, a repeated coordinate, another
\* single point
ChartDataSets ==
    {[coords |-> <<2, 6>>, values |-> <<0, 9000>>],
     [coords |-> <<4>>, values |-> <<9000>>],
     [coords |-> <<6, 2, 4>>, values |-> <<0, 0, 0>>],
     [coords |-> <<4, 4>>, values |-> <<0, 0>>],
     [coords |-> <<6>>, values |-> <<0>>]}

\* "dataSets": one or two data sets, named a and b
RawParams ==
    {<<[name |-> "a", coords |-> first.coords, values |-> first.values]>> :
        first \in ChartDataSets}
    \cup {<<[name |-> "a", coords |-> first.coords, values |-> first.values],
            [name |-> "b", coords |-> second.coords, values |-> second.values]>> :
            first \in ChartDataSets, second \in ChartDataSets}

\* "autoLogScaleThreshold"
Thresholds == {Half, R(2)}

\* the coordinates under the pointer
ChartQueries == 0..8

\* the timestamps of the events on the chart
ChartTimes == {0, 1}

\* f64 <, with the non-finite numbers
F64Lt(a, b) ==
    IF a = NaN \/ b = NaN THEN FALSE
    ELSE IF ~Finite(a) \/ ~Finite(b)
         THEN a # b /\ (a = <<-1, 0>> \/ b = <<1, 0>>)
         ELSE RLt(a, b)

\* f64::min: the other number when one is NaN
F64Min(a, b) ==
    IF b = NaN THEN a ELSE IF a = NaN THEN b ELSE IF F64Lt(b, a) THEN b ELSE a

\* the f64 nearest to a whole number: infinite beyond f64::MAX
F64(x) == IF x > F64_MAX THEN <<1, 0>> ELSE IF x < F64_MIN THEN <<-1, 0>> ELSE R(x)

\* the whole number an f64 of the model is
Whole(a) == a[1] \div a[2]

\* ChartParams::from, lines 721-754, from the data set raw[i] on
RECURSIVE ChartParamsFrom(_, _, _)
RECURSIVE ParsedOne(_, _, _)
ParsedOne(done, raw, i) ==
    IF IsErr(done.ret) THEN done ELSE ChartParamsFrom(done.content, raw, i + 1)

ChartParamsFrom(c, raw, i) ==
    IF i > Len(raw) THEN [ret |-> Ok, content |-> c]
    ELSE ParsedOne(parse_and_add_data_set(c, raw[i].name, raw[i].coords, raw[i].values),
                   raw, i)

\* LinearScale::normalize_value
LinearScaleNormalizeValue(s, value) ==
    RMul(RSub(R(value), R(s.value_min)), s.value_range_recip)

\* manager.rs lines 62-65
LogCoveredSquare(log_main_scale, data_set) ==
    RSub(LogScaleNormalizeValue(log_main_scale, data_set.meta.max),
         LogScaleNormalizeValue(log_main_scale, data_set.meta.min))

LinearCoveredSquare(linear_main_scale, data_set) ==
    RSub(LinearScaleNormalizeValue(linear_main_scale, data_set.meta.max),
         LinearScaleNormalizeValue(linear_main_scale, data_set.meta.min))

\* f64 !=: NaN differs from every number
F64Ne(a, b) == a = NaN \/ b = NaN \/ a # b

\* manager.rs lines 59-70, from data set i on: min_log_covered_square and
\* min_linear_covered_square
RECURSIVE MinCoveredSquares(_, _, _, _, _, _)
MinCoveredSquares(c, i, log_main_scale, linear_main_scale, min_log, min_linear) ==
    IF i > Len(c.data_sets) THEN [log |-> min_log, linear |-> min_linear]
    ELSE IF F64Ne(LogCoveredSquare(log_main_scale, c.data_sets[i]),
                  LinearCoveredSquare(linear_main_scale, c.data_sets[i]))
         THEN MinCoveredSquares(c, i + 1, log_main_scale, linear_main_scale,
                  F64Min(min_log, LogCoveredSquare(log_main_scale, c.data_sets[i])),
                  F64Min(min_linear, LinearCoveredSquare(linear_main_scale, c.data_sets[i])))
         ELSE MinCoveredSquares(c, i + 1, log_main_scale, linear_main_scale,
                                min_log, min_linear)

\* manager.rs lines 72-74: the chart is drawn on the logarithmic scale
LogScaleChosen(mins, auto_log_scale_threshold) ==
    F64Lt(RMul(mins.linear, auto_log_scale_threshold), mins.log)

\* data_set.alpha.get_end_value() > 0.0
Visible(data_set) == F64Lt(Zero, get_end_value(data_set.alpha))

\* the coordinates of the points of a data set
Coords(data_set) ==
    [i \in DOMAIN data_set.data_points |-> data_set.data_points[i].coord]

\* smallest and largest of a non-empty set of whole numbers
MinOf(numbers) == CHOOSE x \in numbers : \A y \in numbers : x <= y
MaxOf(numbers) == CHOOSE x \in numbers : \A y \in numbers : x >= y

\* camera.rs lines 88-102, from data set i on: coord_min and coord_max.
\* coord_max is taken from coord_min and the last point of the data set at
\* hand, as line 95 does
RECURSIVE CoordBounds(_, _, _, _)
CoordBounds(c, i, coord_min, coord_max) ==
    IF i > Len(c.data_sets) THEN [min |-> coord_min, max |-> coord_max]
    ELSE IF Visible(c.data_sets[i])
         THEN CoordBounds(c, i + 1,
                  Min2(coord_min, c.data_sets[i].data_points[1].coord),
                  Max2(Min2(coord_min, c.data_sets[i].data_points[1].coord),
                       c.data_sets[i].data_points[Len(c.data_sets[i].data_points)].coord))
         ELSE CoordBounds(c, i + 1, coord_min, coord_max)

\* the visible data sets
VisibleSets(c) == {c.data_sets[i] : i \in {k \in DOMAIN c.data_sets : Visible(c.data_sets[k])}}

\* the values of the points from + 1 .. to of a data set
ValuesOf(data_set, from, to) == {data_set.data_points[j].value : j \in (from + 1)..to}

\* (a + b) * 0.5 and b - a, of two whole numbers or of f64::MAX and f64::MIN
Middle(a, b) == RMul(F64(a + b), Half)
Width(a, b) == F64(b - a)

\* the camera after its four set_value calls, and the increments of
\* ANIMATED_NUMBERS_COUNT
Framed(cam, coord, coord_range, value, value_range) ==
    [camera |-> [cam EXCEPT !.coord = coord.n, !.coord_range = coord_range.n,
                            !.value = value.n, !.value_range = value_range.n,
                            !.dirty = TRUE],
     counted |-> coord.counted + coord_range.counted + value.counted
                 + value_range.counted]

\* lines 98-107 of update_by_content
FramedBy(cam, coords, value_min, value_max, time_us) ==
    Framed(cam, set_value(cam.coord, Middle(coords.min, coords.max), time_us),
           set_value(cam.coord_range, Width(coords.min, coords.max), time_us),
           set_value(cam.value, Middle(value_min, value_max), time_us),
           set_value(cam.value_range, Width(value_min, value_max), time_us))

\* Camera::update_by_content
update_by_content(cam, c, time_us) ==
    FramedBy(cam, CoordBounds(c, 1, F64_MAX, F64_MIN),
             MinOf({F64_MAX} \cup UNION {ValuesOf(data_set, 0, Len(data_set.data_points)) :
                                           data_set \in VisibleSets(c)}),
             MaxOf({F64_MIN} \cup UNION {ValuesOf(data_set, 0, Len(data_set.data_points)) :
                                           data_set \in VisibleSets(c)}),
             time_us)

\* Camera::new: the scale of the screen area is the scale of the chart, on
\* the global bounds of the content
CameraNew(c) ==
    update_by_content([CameraBlank EXCEPT
                          !.screen_area = Focus(F64(c.global_coord_min),
                                                F64(c.global_coord_max),
                                                F64(c.global_value_min),
                                                F64(c.global_value_max))],
                      c, None).camera

\* ChartManager::create_main on a content ChartParams::from has returned:
\* the scales, the variant chosen and the camera
MainChartOf(c, auto_log_scale_threshold) ==
    [log_scale |-> LogScaleNew(c.global_coord_min, c.global_coord_max,
                               c.global_value_min, c.global_value_max),
     linear_scale |-> LinearScaleNew(c.global_coord_min, c.global_coord_max,
                                     c.global_value_min, c.global_value_max),
     scale_kind |->
         IF LogScaleChosen(
                MinCoveredSquares(c, 1,
                    LogScaleNew(c.global_coord_min, c.global_coord_max,
                                c.global_value_min, c.global_value_max),
                    LinearScaleNew(c.global_coord_min, c.global_coord_max,
                                   c.global_value_min, c.global_value_max),
                    R(F64_MAX), R(F64_MAX)),
                auto_log_scale_threshold)
         THEN "log" ELSE "linear",
     camera |-> CameraNew(c)]

\* manager.rs line 50: the error of ChartParams::from, prefixed
ParamsErr(result) == <<"Err", "params", result[2]>>

\* manager.create_main(raw_params, raw_config)
CreateMain ==
    /\ ~panicked /\ charts = 0
    /\ \E raw \in RawParams, auto_log_scale_threshold \in Thresholds :
        \E params \in {ChartParamsFrom(ContentNew, raw, 1)} :
            /\ call' = [op |-> "create_main", raw_params |-> raw,
                        auto_log_scale_threshold |-> auto_log_scale_threshold]
            /\ IF IsErr(params.ret)
               THEN /\ ret' = ParamsErr(params.ret)
                    /\ UNCHANGED <<content, camera, charts, scaleVars>>
               ELSE \E chart \in {MainChartOf(params.content, auto_log_scale_threshold)} :
                    /\ content' = params.content
                    /\ log_scale' = chart.log_scale
                    /\ linear_scale' = chart.linear_scale
                    /\ scale_kind' = chart.scale_kind
                    /\ camera' = chart.camera
                    /\ charts' = charts + 1
                    /\ ret' = Ok
    /\ UNCHANGED <<ANIMATED_NUMBERS_COUNT, clock, tooltip, panicked, OutsideChart>>

\* the data set with its alpha re-targeted
Faded(data_set, moved) ==
    [data_set |-> [data_set EXCEPT !.alpha = moved.n], counted |-> moved.counted]

\* legend.rs lines 432-449, for the data set at index_ (counted from 0): lone
\* is the test of lines 433-439
Toggled(c, index_, index, lone, time_us) ==
    IF (lone /\ index_ # index) \/ (~lone /\ index_ = index)
    THEN Faded(c.data_sets[index_ + 1],
               set_value(c.data_sets[index_ + 1].alpha,
                         IF lone THEN One
                         ELSE RSub(One, get_end_value(c.data_sets[index_ + 1].alpha)),
                         Some(time_us)))
    ELSE [data_set |-> c.data_sets[index_ + 1], counted |-> 0]

\* the content with the data sets of steps
WithDataSets(c, steps) ==
    [ret |-> Ok,
     content |-> [c EXCEPT !.data_sets = [i \in DOMAIN steps |-> steps[i].data_set]],
     counted |-> SumCounted(steps, 1)]

\* a toggle_data_set without the test of lines 433-439: it hides the data
\* set clicked even when no other one is shown
toggle_data_set_hiding_the_last(c, index, time_us) ==
    IF index >= Len(c.data_sets)
    THEN [ret |-> Err("index is out of bound"), content |-> c, counted |-> 0]
    ELSE WithDataSets(c,
             [i \in DOMAIN c.data_sets |-> Toggled(c, i - 1, index, FALSE, time_us)])

\* Legend::toggle_data_set: what it returns, the content afterwards and the
\* increments of ANIMATED_NUMBERS_COUNT
toggle_data_set(c, index, time_us) ==
    IF index >= Len(c.data_sets)
    THEN [ret |-> Err("index is out of bound"), content |-> c, counted |-> 0]
    ELSE WithDataSets(c,
             [i \in DOMAIN c.data_sets |->
                 Toggled(c, i - 1, index,
                         /\ get_end_value(c.data_sets[index + 1].alpha) = One
                         /\ Cardinality({k \in DOMAIN c.data_sets :
                                            get_end_value(c.data_sets[k].alpha) = One}) = 1,
                         time_us)])

\* legend.toggle_data_set(content, index, time_us)
ToggleDataSet ==
    /\ ~panicked /\ charts > 0
    /\ \E index \in 0..2, time_us \in ChartTimes :
        \E done \in {toggle_data_set(content, index, time_us)} :
            /\ time_us >= clock /\ clock' = time_us
            /\ ANIMATED_NUMBERS_COUNT + done.counted <= MaxChartCount
            /\ ANIMATED_NUMBERS_COUNT' = ANIMATED_NUMBERS_COUNT + done.counted
            /\ content' = done.content
            /\ ret' = done.ret
            /\ call' = [op |-> "toggle_data_set", index |-> index, time_us |-> time_us]
    /\ UNCHANGED <<camera, charts, tooltip, scaleVars, panicked, OutsideChart>>

\* tooltip.rs lines 87, 108: data_set.alpha.get_end_value() == 0.0
Hidden(data_set) == get_end_value(data_set.alpha) = Zero

\* the coordinate of the point a search has found in a data set, if any
FoundCoords(data_set, found) ==
    IF IsSome(found) THEN {data_set.data_points[Unwrap(found) + 1].coord} ELSE {}

\* tooltip.rs lines 83-97: max_coord, over the data sets that are not hidden
LeftCandidates(c, coord) ==
    UNION {FoundCoords(c.data_sets[i], bin_search_right_bound(Coords(c.data_sets[i]), coord)) :
             i \in {k \in DOMAIN c.data_sets : ~Hidden(c.data_sets[k])}}

\* tooltip.rs lines 104-118: min_coord, over the data sets that are not hidden
RightCandidates(c, coord) ==
    UNION {FoundCoords(c.data_sets[i], bin_search_left_bound(Coords(c.data_sets[i]), coord)) :
             i \in {k \in DOMAIN c.data_sets : ~Hidden(c.data_sets[k])}}

\* the farther of the two candidates
FartherOf(coord, min_coord, max_coord) ==
    IF Abs(coord - min_coord) < Abs(coord - max_coord) THEN max_coord ELSE min_coord

\* tooltip.rs lines 123-130: matched_coord
CloserOf(coord, min_coord, max_coord) ==
    IF Abs(coord - min_coord) < Abs(coord - max_coord) THEN min_coord ELSE max_coord

\* tooltip.rs lines 83-130: matched_coord, or None when draw returns at
\* line 101
MatchedCoord(c, coord) ==
    IF LeftCandidates(c, coord) = {} THEN None
    ELSE Some(CloserOf(coord, MinOf({F64_MAX} \cup RightCandidates(c, coord)),
                       MaxOf({F64_MIN} \cup LeftCandidates(c, coord))))

\* tooltip.draw(content, .., pointer, ..) with the pointer over coord
TooltipDraw ==
    /\ ~panicked /\ charts > 0
    /\ \E coord \in ChartQueries :
        /\ tooltip' = [visible |-> TRUE, matched_coord |-> MatchedCoord(content, coord)]
        /\ call' = [op |-> "Tooltip::draw", coord |-> coord]
    /\ ret' = None
    /\ UNCHANGED <<content, camera, charts, scaleVars, ANIMATED_NUMBERS_COUNT, clock,
                   panicked, OutsideChart>>

\* the window coordinates of a zoom, and the optional timestamps of the
\* camera's operations
ZoomCoords == {0, 4, 8}
MoveCoords == {0, 4, 6}
CameraTimes == {None, Some(0)}

\* the "dataSets" of the charts whose camera is operated: two points far
\* apart, alone and with a single point between them, and three points
CameraRawParams ==
    {raw \in RawParams :
        /\ raw[1].coords \in {<<2, 6>>, <<6, 2, 4>>}
        /\ Len(raw) = 2 => raw[1].coords = <<2, 6>> /\ raw[2].coords = <<4>>}

\* data_set.slice_by_coord(coord_start, coord_end)
SliceOf(data_set, coord_start, coord_end) ==
    slice_by_coord(Coords(data_set), coord_start, coord_end)

\* the visible data sets slice_by_coord returns a sub-range of
Sliced(c, coord_start, coord_end) ==
    {data_set \in VisibleSets(c) : IsSome(SliceOf(data_set, coord_start, coord_end))}

\* data_points.len() of a returned sub-range
SliceLen(slice) == SliceTo(slice) - SliceFrom(slice)

\* camera.rs lines 119-133 and 148-159: the values of the points of the
\* sub-ranges
WindowValues(c, coord_start, coord_end) ==
    UNION {ValuesOf(data_set, SliceFrom(SliceOf(data_set, coord_start, coord_end)),
                    SliceTo(SliceOf(data_set, coord_start, coord_end))) :
             data_set \in Sliced(c, coord_start, coord_end)}

\* camera.rs line 126: the length of the longest sub-range
NumberOfPoints(c, coord_start, coord_end) ==
    MaxOf({0} \cup {SliceLen(SliceOf(data_set, coord_start, coord_end)) :
                      data_set \in Sliced(c, coord_start, coord_end)})

\* slice_by_coord panics on a visible data set
SlicePanics(c, coord_start, coord_end) ==
    \E data_set \in VisibleSets(c) :
        slice_by_coord_panics(Coords(data_set), coord_start, coord_end)

\* camera.rs lines 134-140
ZoomedTo(cam, coord_start, coord_end, value_min, value_max, time_us) ==
    Framed(cam, set_value(cam.coord, Middle(coord_start, coord_end), time_us),
           set_value(cam.coord_range, Width(coord_start, coord_end), time_us),
           set_value(cam.value, Middle(value_min, value_max), time_us),
           set_value(cam.value_range, Width(value_min, value_max), time_us))

\* Camera::zoom_by_coords past the check of line 115: the camera afterwards
\* and the increments of ANIMATED_NUMBERS_COUNT
zoom_by_coords(cam, c, coord_start, coord_end, time_us) ==
    IF NumberOfPoints(c, coord_start, coord_end) > 1
    THEN ZoomedTo(cam, coord_start, coord_end,
                  MinOf({F64_MAX} \cup WindowValues(c, coord_start, coord_end)),
                  MaxOf({F64_MIN} \cup WindowValues(c, coord_start, coord_end)),
                  time_us)
    ELSE [camera |-> cam, counted |-> 0]

\* camera.rs lines 143-144 and 160-161: coord_range is left alone
Moved(cam, coord, value, value_range) ==
    [camera |-> [cam EXCEPT !.coord = coord.n, !.value = value.n,
                            !.value_range = value_range.n, !.dirty = TRUE],
     counted |-> coord.counted + value.counted + value_range.counted]

MovedTo(cam, coord_center, value_min, value_max, time_us) ==
    Moved(cam, set_value(cam.coord, R(coord_center), time_us),
          set_value(cam.value, Middle(value_min, value_max), time_us),
          set_value(cam.value_range, Width(value_min, value_max), time_us))

\* camera.rs lines 145-147: coord_start and coord_end of move_to
MoveStart(cam, coord_center) ==
    Whole(RSub(R(coord_center), RMul(get_end_value(cam.coord_range), Half)))
MoveEnd(cam, coord_center) ==
    Whole(RAdd(R(coord_center), RMul(get_end_value(cam.coord_range), Half)))

\* Camera::move_to: the camera afterwards and the increments of
\* ANIMATED_NUMBERS_COUNT
move_to(cam, c, coord_center, time_us) ==
    MovedTo(cam, coord_center,
            MinOf({F64_MAX} \cup WindowValues(c, MoveStart(cam, coord_center),
                                              MoveEnd(cam, coord_center))),
            MaxOf({F64_MIN} \cup WindowValues(c, MoveStart(cam, coord_center),
                                              MoveEnd(cam, coord_center))),
            time_us)

\* the clock after an operation given time_us: Option<f64>
ClockAt(time_us) == IF IsSome(time_us) THEN Unwrap(time_us) ELSE clock

\* camera.zoom_by_coords(content, coord_start, coord_end, time_us)
ZoomByCoords ==
    /\ ~panicked /\ charts > 0
    /\ \E coord_start \in ZoomCoords, coord_end \in ZoomCoords, time_us \in CameraTimes :
        /\ ClockAt(time_us) >= clock /\ clock' = ClockAt(time_us)
        /\ call' = [op |-> "zoom_by_coords", coord_start |-> coord_start,
                    coord_end |-> coord_end, time_us |-> time_us]
        /\ IF coord_end <= coord_start \/ SlicePanics(content, coord_start, coord_end)
           THEN panicked' = TRUE /\ UNCHANGED <<camera, ANIMATED_NUMBERS_COUNT>>
           ELSE \E done \in {zoom_by_coords(camera, content, coord_start, coord_end,
                                            time_us)} :
                /\ ANIMATED_NUMBERS_COUNT + done.counted <= MaxChartCount
                /\ ANIMATED_NUMBERS_COUNT' = ANIMATED_NUMBERS_COUNT + done.counted
                /\ camera' = done.camera
                /\ panicked' = FALSE
    /\ ret' = None
    /\ UNCHANGED <<content, charts, tooltip, scaleVars, OutsideChart>>

\* camera.move_to(content, coord_center, time_us)
MoveTo ==
    /\ ~panicked /\ charts > 0
    /\ \E coord_center \in MoveCoords, time_us \in CameraTimes :
        /\ ClockAt(time_us) >= clock /\ clock' = ClockAt(time_us)
        /\ call' = [op |-> "move_to", coord_center |-> coord_center, time_us |-> time_us]
        /\ IF SlicePanics(content, MoveStart(camera, coord_center),
                          MoveEnd(camera, coord_center))
           THEN panicked' = TRUE /\ UNCHANGED <<camera, ANIMATED_NUMBERS_COUNT>>
           ELSE \E done \in {move_to(camera, content, coord_center, time_us)} :
                /\ ANIMATED_NUMBERS_COUNT + done.counted <= MaxChartCount
                /\ ANIMATED_NUMBERS_COUNT' = ANIMATED_NUMBERS_COUNT + done.counted
                /\ camera' = done.camera
                /\ panicked' = FALSE
    /\ ret' = None
    /\ UNCHANGED <<content, charts, tooltip, scaleVars, OutsideChart>>

(***************************************************************************)
(* camera.rs: drawing a frame.  sync_screen_area polls the camera's four   *)
(* AnimatedNumbers and focuses the scale of the screen area on the window  *)
(* they give, once per timestamp; the ticks are asked of the two grids on  *)
(* that window as the global scale normalizes it.  The ScreenArea and its  *)
(* canvas are not in the sources: its scale is a window of four numbers    *)
(* here, and the number of ticks that fit the canvas is an input.  The     *)
(* charts are the ones on a LinearScale.                                   *)
(***************************************************************************)
MaxShootTime == 2     \* timestamps of the frames are 0..MaxShootTime
MaxShootCount == 9    \* cap of ANIMATED_NUMBERS_COUNT while frames are drawn

ShootTimes == 0..MaxShootTime
\* max_ticks of lines 202-208 and 225-231: the ticks that fit the canvas
ShootMaxTicks == {1}

\* the charts whose frames are drawn: values of a range that is not zero
ShootRawParams == {raw \in CameraRawParams : raw[1].coords = <<2, 6>>}

\* lines 171-181: the camera after the four polls, with the scale of the
\* screen area focused by change_focus on the window polled
Focused(cam, coord, coord_range, value, value_range, time_us) ==
    [camera |-> [cam EXCEPT !.scale_time_us = time_us,
                            !.coord = coord.n, !.coord_range = coord_range.n,
                            !.value = value.n, !.value_range = value_range.n,
                            !.screen_area =
                                Focus(RSub(coord.ret, RMul(coord_range.ret, Half)),
                                      RAdd(coord.ret, RMul(coord_range.ret, Half)),
                                      RSub(value.ret, RMul(value_range.ret, Half)),
                                      RAdd(value.ret, RMul(value_range.ret, Half)))],
     counted |-> coord.counted + coord_range.counted + value.counted
                 + value_range.counted]

\* Camera::sync_screen_area: the camera afterwards and the increments of
\* ANIMATED_NUMBERS_COUNT
sync_screen_area(cam, time_us) ==
    IF cam.scale_time_us # time_us
    THEN Focused(cam, get_value(cam.coord, time_us),
                 get_value(cam.coord_range, time_us),
                 get_value(cam.value, time_us), get_value(cam.value_range, time_us),
                 time_us)
    ELSE [camera |-> cam, counted |-> 0]

\* get_content_screen_area that hands out the screen area at any time
get_content_screen_area_never_panics(cam, time_us) == FALSE

\* Camera::get_content_screen_area: "screen area out of sync"
get_content_screen_area_panics(cam, time_us) == cam.scale_time_us # time_us

\* lines 483-493 and 505-515: the window of the screen area's scale as the
\* global scale normalizes it
NormalizedValue(s, value) == RMul(RSub(value, R(s.value_min)), s.value_range_recip)

\* lines 494-501: the ticks with their values denormalized
CoordTicksOf(s, got) ==
    [got EXCEPT !.ticks = [i \in DOMAIN got.ticks |->
                              [got.ticks[i] EXCEPT !.value =
                                  LinearScaleDenormalizeCoord(
                                      s, got.ticks[i].normalized_value)]]]

\* Camera::get_coord_ticks past get_content_screen_area
get_coord_ticks(cam, s, max_ticks, time_us) ==
    CoordTicksOf(s, get_ticks(cam.coord_grid, time_us,
                              LinearScaleNormalizeCoord(s, cam.screen_area.coord_min),
                              LinearScaleNormalizeCoord(s, cam.screen_area.coord_max),
                              max_ticks))

\* lines 516-523
ValueTicksOf(s, got) ==
    [got EXCEPT !.ticks = [i \in DOMAIN got.ticks |->
                              [got.ticks[i] EXCEPT !.value =
                                  RAdd(RMul(got.ticks[i].normalized_value,
                                            R(s.value_range)), R(s.value_min))]]]

\* Camera::get_value_ticks past get_content_screen_area
get_value_ticks(cam, s, max_ticks, time_us) ==
    ValueTicksOf(s, get_ticks(cam.value_grid, time_us,
                              NormalizedValue(s, cam.screen_area.value_min),
                              NormalizedValue(s, cam.screen_area.value_max),
                              max_ticks))

\* the camera and the count after the ticks of an axis were asked for
CoordTicked(prev, got) ==
    [camera |-> [prev.camera EXCEPT !.coord_grid = got.grid],
     counted |-> prev.counted + got.counted]
ValueTicked(prev, got) ==
    [camera |-> [prev.camera EXCEPT !.value_grid = got.grid],
     counted |-> prev.counted + got.counted]

\* lines 200-222: the ticks of the coordinate axis, when it has a row
ShotCoordTicks(prev, s, max_ticks, time_us) ==
    IF prev.camera.coord_ticks_height > 0
    THEN CoordTicked(prev, get_coord_ticks(prev.camera, s, max_ticks, time_us))
    ELSE prev

\* lines 223-245: the ticks of the value axis, when it has a column
ShotValueTicks(prev, s, max_ticks, time_us) ==
    IF prev.camera.value_ticks_width > 0
    THEN ValueTicked(prev, get_value_ticks(prev.camera, s, max_ticks, time_us))
    ELSE prev

\* line 247: data_set.alpha.get_value(time_us) of every data set
AlphaPolled(data_set, polled) ==
    [data_set |-> [data_set EXCEPT !.alpha = polled.n], counted |-> polled.counted]
AlphasPolled(c, time_us) ==
    WithDataSets(c, [i \in DOMAIN c.data_sets |->
                        AlphaPolled(c.data_sets[i],
                                    get_value(c.data_sets[i].alpha, time_us))])

\* lines 259-261: dirty is cleared when the counter has not moved
Shot(prev, polled) ==
    [camera |-> [prev.camera EXCEPT !.dirty =
                    IF prev.counted + polled.counted = 0 THEN FALSE ELSE @],
     content |-> polled.content,
     counted |-> prev.counted + polled.counted]

\* the scale of the screen area has a width and a height
HasArea(area) ==
    /\ area.coord_min[2] # 0 /\ area.coord_max[2] # 0
    /\ area.value_min[2] # 0 /\ area.value_max[2] # 0
    /\ RLt(area.coord_min, area.coord_max) /\ RLt(area.value_min, area.value_max)

\* camera.shoot(content, time_us): a clean camera only records the time
\* (lines 191-194); a dirty one is synced, asks for the ticks of its axes,
\* polls the alphas of the data sets and compares the counter.  The frames
\* whose window has no area are left out
Shoot ==
    /\ ~panicked /\ charts > 0 /\ scale_kind = "linear"
    /\ \E time_us \in ShootTimes, coord_max_ticks \in ShootMaxTicks,
          value_max_ticks \in ShootMaxTicks :
        /\ time_us >= clock /\ clock' = time_us
        /\ call' = [op |-> "shoot", time_us |-> time_us,
                    coord_max_ticks |-> coord_max_ticks,
                    value_max_ticks |-> value_max_ticks]
        /\ IF ~camera.dirty
           THEN /\ camera' = [camera EXCEPT !.scale_time_us = time_us]
                /\ UNCHANGED <<content, ANIMATED_NUMBERS_COUNT>>
           ELSE \E synced \in {sync_screen_area(camera, time_us)} :
                /\ HasArea(synced.camera.screen_area)
                /\ \E coord_ticked \in {ShotCoordTicks(synced, linear_scale,
                                                       coord_max_ticks, time_us)} :
                   \E value_ticked \in {ShotValueTicks(coord_ticked, linear_scale,
                                                       value_max_ticks, time_us)} :
                   \E polled \in {AlphasPolled(content, time_us)} :
                   \E done \in {Shot(value_ticked, polled)} :
                       /\ ANIMATED_NUMBERS_COUNT + done.counted <= MaxShootCount
                       /\ ANIMATED_NUMBERS_COUNT' = ANIMATED_NUMBERS_COUNT + done.counted
                       /\ camera' = done.camera
                       /\ content' = done.content
    /\ ret' = <<>>
    /\ UNCHANGED <<charts, tooltip, scaleVars, panicked, OutsideChart>>

\* camera.update_by_content(content, time_us)
UpdateByContent ==
    /\ ~panicked /\ charts > 0
    /\ \E time_us \in CameraTimes :
        /\ ClockAt(time_us) >= clock /\ clock' = ClockAt(time_us)
        /\ call' = [op |-> "update_by_content", time_us |-> time_us]
        /\ \E done \in {update_by_content(camera, content, time_us)} :
            /\ ANIMATED_NUMBERS_COUNT + done.counted <= MaxChartCount
            /\ ANIMATED_NUMBERS_COUNT' = ANIMATED_NUMBERS_COUNT + done.counted
            /\ camera' = done.camera
    /\ ret' = <<>>
    /\ UNCHANGED <<content, charts, tooltip, scaleVars, panicked, OutsideChart>>

\* camera.get_coord_ticks(max_ticks, time_us): it asks for the content
\* screen area first
GetCoordTicks ==
    /\ ~panicked /\ charts > 0 /\ scale_kind = "linear"
    /\ \E time_us \in ShootTimes, max_ticks \in ShootMaxTicks :
        /\ time_us >= clock /\ clock' = time_us
        /\ call' = [op |-> "get_coord_ticks", time_us |-> time_us,
                    max_ticks |-> max_ticks]
        /\ IF get_content_screen_area_panics(camera, time_us)
           THEN /\ panicked' = TRUE /\ ret' = <<>>
                /\ UNCHANGED <<camera, ANIMATED_NUMBERS_COUNT>>
           ELSE \E got \in {get_coord_ticks(camera, linear_scale, max_ticks, time_us)} :
                /\ ANIMATED_NUMBERS_COUNT + got.counted <= MaxShootCount
                /\ ANIMATED_NUMBERS_COUNT' = ANIMATED_NUMBERS_COUNT + got.counted
                /\ camera' = [camera EXCEPT !.coord_grid = got.grid]
                /\ ret' = got.ticks
                /\ panicked' = FALSE
    /\ UNCHANGED <<content, charts, tooltip, scaleVars, OutsideChart>>

\* camera.get_content_screen_area(time_us)
GetContentScreenArea ==
    /\ ~panicked /\ charts > 0
    /\ \E time_us \in ShootTimes :
        /\ time_us >= clock /\ clock' = time_us
        /\ call' = [op |-> "get_content_screen_area", time_us |-> time_us]
        /\ panicked' = get_content_screen_area_panics(camera, time_us)
    /\ ret' = <<>>
    /\ UNCHANGED <<chartVars, ANIMATED_NUMBERS_COUNT, scaleVars, OutsideChart>>

(***************************************************************************)
(* The frames of a chart: src/src/main_chart.rs, src/src/preview.rs,       *)
(* src/src/legend.rs and the CoordSpace of src/src/screen.rs.              *)
(*                                                                         *)
(* A CoordSpace holds four AnimatedNumbers, the window its scale was last  *)
(* reframed on and the timestamp of that reframe.  The Camera main_chart.rs *)
(* works with (control_coord_space, draw, zoom_by_coords) is not in the    *)
(* sources: it is the Viewport of the specification, one CoordSpace of     *)
(* screen.rs resolved once per frame and re-targeted by zoom_by_coords.    *)
(* The legend shows its items on one page: the screen position i of the    *)
(* legend is over item i, and over no item from the number of data sets    *)
(* on.  Timestamps are those of performance.now() and of                   *)
(* requestAnimationFrame: positive, and increasing from frame to frame;    *)
(* the clock advances by at most one unit between two steps, a longer gap  *)
(* being a row of pointer moves that change nothing.                       *)
(***************************************************************************)
MaxFrameTime == 4      \* timestamps of the events and frames are 1..MaxFrameTime
MaxFrameCount == 40    \* cap of ANIMATED_NUMBERS_COUNT between two frames

FrameTimes == 1..MaxFrameTime
\* the screen positions of the legend area
LegendPositions == 0..1
\* "msLongPress" of 100 ms: ChartConfig.us_long_press
us_long_press == (100 * 1000) \div TimeUnitUs

\* the charts drawn: the ones on a LinearScale
MainChartRawParams == ShootRawParams

\* the one element of a set of one element
TheOne(S) == CHOOSE x \in S : TRUE

\* f64 == 0.0 of b - a
ZeroRange(a, b) == RSub(b, a)[1] = 0 /\ RSub(b, a)[2] # 0

\* CoordSpace::new(screen_area, scale)
CoordSpaceNew(scale) ==
    [coord_min |-> new(scale.coord_min), coord_max |-> new(scale.coord_max),
     value_min |-> new(scale.value_min), value_max |-> new(scale.value_max),
     scale |-> scale, scale_time_us |-> 0]

\* coord_min, coord_max, value_min and value_max of a CoordSpace
Numbers(cs) == <<cs.coord_min, cs.coord_max, cs.value_min, cs.value_max>>

\* the CoordSpace after the four set_value calls of content_updated, and the
\* increments of ANIMATED_NUMBERS_COUNT
ContentUpdated(cs, moved) ==
    [coord_space |-> [cs EXCEPT !.coord_min = moved[1].n, !.coord_max = moved[2].n,
                                !.value_min = moved[3].n, !.value_max = moved[4].n,
                                !.scale_time_us = 0],
     counted |-> SumCounted(moved, 1)]

\* CoordSpace::content_updated(coord_min, coord_max, value_min, value_max, time_us)
content_updated(cs, coord_min, coord_max, value_min, value_max, time_us) ==
    TheOne({ContentUpdated(cs, moved) :
               moved \in {[i \in 1..4 |->
                              set_value(Numbers(cs)[i],
                                        <<coord_min, coord_max, value_min, value_max>>[i],
                                        time_us)]}})

\* the CoordSpace after the four get_value calls of get_handle and the
\* reframe on what they returned; the reframe of a LinearScale panics on a
\* range of zero (scale.rs lines 56-63)
Handled(cs, polled, time_us) ==
    [coord_space |-> [cs EXCEPT !.coord_min = polled[1].n, !.coord_max = polled[2].n,
                                !.value_min = polled[3].n, !.value_max = polled[4].n,
                                !.scale = Focus(polled[1].ret, polled[2].ret,
                                                polled[3].ret, polled[4].ret),
                                !.scale_time_us = time_us],
     counted |-> SumCounted(polled, 1),
     panics |-> ZeroRange(polled[1].ret, polled[2].ret)
                \/ ZeroRange(polled[3].ret, polled[4].ret)]

\* CoordSpace::get_handle(time_us): the CoordSpace afterwards, the increments
\* of ANIMATED_NUMBERS_COUNT and whether the reframe panics
get_handle(cs, time_us) ==
    IF time_us # cs.scale_time_us
    THEN TheOne({Handled(cs, polled, time_us) :
                    polled \in {[i \in 1..4 |-> get_value(Numbers(cs)[i], time_us)]}})
    ELSE [coord_space |-> cs, counted |-> 0, panics |-> FALSE]

\* Content::get_min_max: the loop of lines 539-549, coord_max taken from
\* coord_min as line 542 does
get_min_max(c) ==
    [coord_min |-> F64(CoordBounds(c, 1, F64_MAX, F64_MIN).min),
     coord_max |-> F64(CoordBounds(c, 1, F64_MAX, F64_MIN).max),
     value_min |-> F64(MinOf({F64_MAX} \cup
                      UNION {ValuesOf(data_set, 0, Len(data_set.data_points)) :
                                data_set \in VisibleSets(c)})),
     value_max |-> F64(MaxOf({F64_MIN} \cup
                      UNION {ValuesOf(data_set, 0, Len(data_set.data_points)) :
                                data_set \in VisibleSets(c)}))]

\* Preview::update_by_content(content, time_us), on the bounds get_min_max
\* has returned: the two coordinate spaces re-targeted and the increments of
\* ANIMATED_NUMBERS_COUNT
PreviewUpdatedBy(preview, spaces) ==
    [preview |-> [preview EXCEPT !.coord_space = spaces[1].coord_space,
                                 !.control_coord_space = spaces[2].coord_space],
     counted |-> SumCounted(spaces, 1)]

PreviewUpdateByContent(preview, bounds, time_us) ==
    TheOne({PreviewUpdatedBy(preview, spaces) :
               spaces \in {[i \in 1..2 |->
                               content_updated(
                                   <<preview.coord_space, preview.control_coord_space>>[i],
                                   bounds.coord_min, bounds.coord_max,
                                   bounds.value_min, bounds.value_max, time_us)]}})

\* Preview::new, lines 38-63
PreviewNew(c, scale) ==
    PreviewUpdateByContent([coord_space |-> CoordSpaceNew(scale),
                            control_coord_space |-> CoordSpaceNew(scale)],
                           get_min_max(c), None).preview

\* the camera of main_chart.rs, on the global scale
ViewportNew(scale) == [control_coord_space |-> CoordSpaceNew(scale)]

\* camera.zoom_by_coords(content, coord_start, coord_end, time_us): the
\* Viewport's set_target, on the values of the visible data sets
ViewportZoomedTo(cam, space) ==
    [camera |-> [cam EXCEPT !.control_coord_space = space.coord_space],
     counted |-> space.counted]

ViewportZoomByCoords(cam, bounds, coord_start, coord_end, time_us) ==
    TheOne({ViewportZoomedTo(cam, space) :
               space \in {content_updated(cam.control_coord_space, coord_start, coord_end,
                                          bounds.value_min, bounds.value_max,
                                          Some(time_us))}})

\* camera.draw(content, time_us): the Viewport's resolve
ViewportResolved(cam, space) ==
    [camera |-> [cam EXCEPT !.control_coord_space = space.coord_space],
     counted |-> space.counted, panics |-> space.panics]

ViewportDraw(cam, time_us) ==
    TheOne({ViewportResolved(cam, space) :
               space \in {get_handle(cam.control_coord_space, time_us)}})

\* Preview::draw (line 72) and Preview::draw_grip (line 112): the two
\* get_handle calls of a frame
PreviewDrawn(preview, spaces) ==
    [preview |-> [preview EXCEPT !.coord_space = spaces[1].coord_space,
                                 !.control_coord_space = spaces[2].coord_space],
     counted |-> SumCounted(spaces, 1),
     panics |-> spaces[1].panics \/ spaces[2].panics]

PreviewDraw(preview, time_us) ==
    TheOne({PreviewDrawn(preview, spaces) :
               spaces \in {[i \in 1..2 |->
                               get_handle(
                                   <<preview.coord_space, preview.control_coord_space>>[i],
                                   time_us)]}})

\* Legend::new
LegendNew == [pointer |-> None, pointer_down |-> None, pointer_down_time_us |-> None]

\* legend.rs lines 354-360 and 394-400: the index of the item whose
\* rectangle contains the position
ClickedIndex(c, pos) == IF pos < Len(c.data_sets) THEN Some(pos) ELSE None

\* Legend::on_click(content, time_us): made_changes, the content afterwards
\* and the increments of ANIMATED_NUMBERS_COUNT
on_click(legend, c, time_us) ==
    IF legend.pointer_down # None /\ ClickedIndex(c, Unwrap(legend.pointer_down)) # None
    THEN [made_changes |-> TRUE,
          toggled |-> toggle_data_set(c, Unwrap(ClickedIndex(c, Unwrap(legend.pointer_down))),
                                      time_us)]
    ELSE [made_changes |-> FALSE, toggled |-> [ret |-> Ok, content |-> c, counted |-> 0]]

\* utils.rs: is_click(pos1, pos2)
is_click(pos1, pos2) == pos1 = pos2

\* legend.rs lines 382-391: the press has lasted and the pointer has not moved
long_pressed(legend, time_us) ==
    /\ legend.pointer_down_time_us # None /\ legend.pointer_down # None
    /\ legend.pointer # None
    /\ time_us - Unwrap(legend.pointer_down_time_us) > us_long_press
    /\ is_click(Unwrap(legend.pointer_down), Unwrap(legend.pointer))

\* lines 401-409: the data set at index_to_show is shown alone
ShownAlone(c, index_to_show, time_us) ==
    WithDataSets(c,
        [i \in DOMAIN c.data_sets |->
            Faded(c.data_sets[i],
                  set_value(c.data_sets[i].alpha,
                            IF i - 1 = index_to_show THEN One ELSE Zero,
                            Some(time_us)))])

\* Legend::on_long_press(content, time_us): the legend and the content
\* afterwards and the increments of ANIMATED_NUMBERS_COUNT
on_long_press(legend, c, time_us) ==
    IF long_pressed(legend, time_us) /\ ClickedIndex(c, Unwrap(legend.pointer)) # None
    THEN [legend |-> [legend EXCEPT !.pointer_down = None,
                                    !.pointer_down_time_us = None],
          shown |-> ShownAlone(c, Unwrap(ClickedIndex(c, Unwrap(legend.pointer))),
                               time_us),
          fired |-> TRUE]
    ELSE [legend |-> legend, shown |-> [ret |-> Ok, content |-> c, counted |-> 0],
          fired |-> FALSE]

\* MainChart::new, lines 114-166, and ensure_listeners_are_set_up; drawn_at
\* is the timestamp of the latest frame
MainChartNew(c, scale) ==
    [camera |-> ViewportNew(scale),
     preview |-> PreviewNew(c, scale),
     legend |-> LegendNew,
     animation_frame_requested |-> FALSE,
     drawn_at |-> 0]

\* main_chart.request_animation_frame(), lines 272-286
request_animation_frame(chart) == [chart EXCEPT !.animation_frame_requested = TRUE]

\* the timestamp of an event or of a frame: not before the latest one, and
\* at most one unit after it
Now(time_us) == time_us >= clock /\ time_us <= clock + 1

\* what an event handler leaves alone
EventUnchanged == UNCHANGED <<panicked, OutsideMainChart>>

\* touchstart or mousedown over the legend: on_control_event of PointerDown
\* (lines 422-460), then request_animation_frame
PointerDown ==
    /\ ~panicked /\ charts > 0
    /\ \E pos \in LegendPositions, time_us \in FrameTimes :
        /\ Now(time_us) /\ clock' = time_us
        /\ call' = [op |-> "PointerDown", pos |-> Some(pos), time_us |-> time_us]
        /\ main_chart' = request_animation_frame(
               [main_chart EXCEPT !.legend.pointer = Some(pos),
                                  !.legend.pointer_down = Some(pos),
                                  !.legend.pointer_down_time_us = Some(time_us)])
    /\ ret' = <<>>
    /\ UNCHANGED <<content, ANIMATED_NUMBERS_COUNT>>
    /\ EventUnchanged

\* legend_pointer_up, lines 396-399
legend_pointer_up(legend) ==
    [legend EXCEPT !.pointer_down = None, !.pointer_down_time_us = None]

\* the pointer moved within the legend, or out of the chart (pos None):
\* on_control_event of PointerMoved (lines 462-511), then
\* request_animation_frame
PointerMoved ==
    /\ ~panicked /\ charts > 0
    /\ \E pos \in {None} \cup {Some(p) : p \in LegendPositions}, time_us \in FrameTimes :
        /\ Now(time_us) /\ clock' = time_us
        /\ call' = [op |-> "PointerMoved", pos |-> pos, time_us |-> time_us]
        /\ main_chart' = request_animation_frame(
               [main_chart EXCEPT !.legend =
                   IF pos # None THEN [main_chart.legend EXCEPT !.pointer = pos]
                   ELSE [(IF main_chart.legend.pointer_down # None
                          THEN legend_pointer_up(main_chart.legend)
                          ELSE main_chart.legend) EXCEPT !.pointer = None]])
    /\ ret' = <<>>
    /\ UNCHANGED <<content, ANIMATED_NUMBERS_COUNT>>
    /\ EventUnchanged

\* on_control_event of PointerUp and PointerLeft (lines 512-527), then
\* request_animation_frame
PointerUp ==
    /\ ~panicked /\ charts > 0
    /\ \E time_us \in FrameTimes :
        /\ Now(time_us) /\ clock' = time_us
        /\ call' = [op |-> "PointerUp", pos |-> None, time_us |-> time_us]
        /\ main_chart' = request_animation_frame(
               [main_chart EXCEPT !.legend =
                   [(IF main_chart.legend.pointer_down # None
                     THEN legend_pointer_up(main_chart.legend)
                     ELSE main_chart.legend) EXCEPT !.pointer = None]])
    /\ ret' = <<>>
    /\ UNCHANGED <<content, ANIMATED_NUMBERS_COUNT>>
    /\ EventUnchanged

\* on_control_event of PointerClicked (lines 528-562), then
\* request_animation_frame
PointerClicked ==
    /\ ~panicked /\ charts > 0
    /\ \E time_us \in FrameTimes :
        /\ Now(time_us) /\ clock' = time_us
        /\ call' = [op |-> "PointerClicked", pos |-> None, time_us |-> time_us]
        /\ \E clicked \in {on_click(main_chart.legend, content, time_us)} :
              IF clicked.made_changes
              THEN \E bounds \in {get_min_max(clicked.toggled.content)} :
                   \E zoomed \in {ViewportZoomByCoords(main_chart.camera, bounds,
                          get_end_value(main_chart.camera.control_coord_space.coord_min),
                          get_end_value(main_chart.camera.control_coord_space.coord_max),
                          time_us)} :
                   \E updated \in {PreviewUpdateByContent(main_chart.preview, bounds,
                                                          Some(time_us))} :
                      /\ ANIMATED_NUMBERS_COUNT + clicked.toggled.counted + zoomed.counted
                             + updated.counted <= MaxFrameCount
                      /\ ANIMATED_NUMBERS_COUNT' =
                             ANIMATED_NUMBERS_COUNT + clicked.toggled.counted
                             + zoomed.counted + updated.counted
                      /\ content' = clicked.toggled.content
                      /\ main_chart' = request_animation_frame(
                             [main_chart EXCEPT
                                 !.camera = zoomed.camera, !.preview = updated.preview,
                                 !.legend = legend_pointer_up(main_chart.legend)])
              ELSE /\ main_chart' = request_animation_frame(
                          [main_chart EXCEPT !.legend =
                              IF main_chart.legend.pointer_down # None
                              THEN legend_pointer_up(main_chart.legend)
                              ELSE main_chart.legend])
                   /\ UNCHANGED <<content, ANIMATED_NUMBERS_COUNT>>
    /\ ret' = <<>>
    /\ EventUnchanged

\* the chart at the end of MainChart::draw (lines 663-667): another frame is
\* requested when the counter is above 0 or a press on the legend is pending
Drawn(chart, legend, cam, preview, counted, time_us) ==
    [chart EXCEPT !.legend = legend, !.camera = cam, !.preview = preview,
                  !.drawn_at = time_us,
                  !.animation_frame_requested =
                      (counted > 0 \/ legend.pointer_down_time_us # None)]

\* the callback of requestAnimationFrame (lines 259-266): the flag is
\* cleared and MainChart::draw (lines 642-668) draws the frame
Draw ==
    /\ ~panicked /\ charts > 0
    /\ main_chart.animation_frame_requested
    /\ \E time_us \in FrameTimes :
        /\ Now(time_us) /\ time_us > main_chart.drawn_at
        /\ clock' = time_us
        /\ call' = [op |-> "draw", pos |-> None, time_us |-> time_us]
        /\ \E pressed \in {on_long_press(main_chart.legend, content, time_us)} :
           \E cam \in {ViewportDraw(main_chart.camera, time_us)} :
           \E preview \in {PreviewDraw(main_chart.preview, time_us)} :
           \E polled \in {AlphasPolled(pressed.shown.content, time_us)} :
              IF cam.panics \/ preview.panics
              THEN /\ panicked' = TRUE
                   /\ UNCHANGED <<content, main_chart, ANIMATED_NUMBERS_COUNT>>
              ELSE /\ panicked' = FALSE
                   /\ ANIMATED_NUMBERS_COUNT' = pressed.shown.counted + cam.counted
                                                + preview.counted + polled.counted
                   /\ content' = polled.content
                   /\ main_chart' = Drawn(main_chart, pressed.legend, cam.camera,
                                          preview.preview,
                                          pressed.shown.counted + cam.counted
                                          + preview.counted + polled.counted, time_us)
    /\ ret' = <<>>
    /\ UNCHANGED OutsideMainChart

(***************************************************************************)
(* The touch gestures: TouchControls of src/src/controls.rs and the pinch  *)
(* events of MainChart::on_control_event, src/src/main_chart.rs.           *)
(*                                                                         *)
(* A ScreenPos is its x; every position is inside the camera's area and    *)
(* the camera's coordinates are the positions.  The browser reports the    *)
(* changed touches of an event in a list; identifiers of lifted touches    *)
(* are used again.                                                         *)
(***************************************************************************)
\* a ControlEvent
ControlEvent(type, pos1, pos2) == [type |-> type, pos1 |-> pos1, pos2 |-> pos2]
\* lines 157-161, 166-170
TouchStateOf(touch) == [id |-> touch.id, down |-> touch.pos, moved |-> touch.pos]
\* touches.iter().filter(|touch| touch.id == id).next()
TouchOf(touches, id) ==
    LET found == {i \in 1..Len(touches) : touches[i].id = id}
    IN IF found = {} THEN None
       ELSE Some(touches[CHOOSE i \in found : \A j \in found : i <= j])

\* TouchControls::down
down(w, touches) ==
    LET primary == IF w.primary = None THEN Some(TouchStateOf(Head(touches)))
                   ELSE w.primary
        rest == IF w.primary = None THEN Tail(touches) ELSE touches
        secondary_set == w.secondary = None /\ rest # <<>>
        secondary == IF secondary_set THEN Some(TouchStateOf(Head(rest)))
                     ELSE w.secondary
    IN [watcher |-> [primary |-> primary, secondary |-> secondary],
        event |-> IF secondary_set
                  THEN Some(ControlEvent("PinchStarted", Some(Unwrap(primary).down),
                                         Some(Unwrap(secondary).down)))
                  ELSE Some(ControlEvent("PointerDown", Some(Unwrap(primary).down), None))]

\* lines 190-197, 198-208: the touch state after the move of its touch, if any
TouchMoved(state, touches) ==
    IF state # None /\ TouchOf(touches, Unwrap(state).id) # None
    THEN Some([Unwrap(state) EXCEPT !.moved = Unwrap(TouchOf(touches, Unwrap(state).id)).pos])
    ELSE state

\* TouchControls::moved
moved(w, touches) ==
    LET primary_updated == w.primary # None /\ TouchOf(touches, Unwrap(w.primary).id) # None
        secondary_updated ==
            w.secondary # None /\ TouchOf(touches, Unwrap(w.secondary).id) # None
        active_touches == (IF w.primary # None THEN 1 ELSE 0)
                          + (IF w.secondary # None THEN 1 ELSE 0)
        updated_touches == (IF primary_updated THEN 1 ELSE 0)
                           + (IF secondary_updated THEN 1 ELSE 0)
        primary == TouchMoved(w.primary, touches)
        secondary == TouchMoved(w.secondary, touches)
    IN [watcher |-> [primary |-> primary, secondary |-> secondary],
        event |-> IF active_touches = 2 /\ updated_touches > 0
                  THEN Some(ControlEvent("PinchUpdated", Some(Unwrap(primary).moved),
                                         Some(Unwrap(secondary).moved)))
                  ELSE IF primary_updated
                  THEN Some(ControlEvent("PointerMoved", Some(Unwrap(primary).moved), None))
                  ELSE None]

\* TouchControls::up
up(w, touches) ==
    LET secondary_just_left ==
            w.secondary # None /\ TouchOf(touches, Unwrap(w.secondary).id) # None
        secondary == IF secondary_just_left THEN None ELSE w.secondary
        primary_to_be_dropped ==
            w.primary # None /\ TouchOf(touches, Unwrap(w.primary).id) # None
        result ==
            IF w.primary # None
            THEN IF primary_to_be_dropped
                 THEN IF secondary_just_left
                      THEN Some(ControlEvent("PinchFinished", None, None))
                      ELSE IF secondary = None
                      THEN IF Unwrap(w.primary).moved = Unwrap(w.primary).down
                           THEN Some(ControlEvent("PointerClicked", None, None))
                           ELSE Some(ControlEvent("PointerUp", None, None))
                      ELSE None
                 ELSE None
            ELSE IF secondary_just_left
            THEN Some(ControlEvent("PinchFinished", None, None))
            ELSE None
    IN [watcher |-> [primary |-> IF primary_to_be_dropped THEN None ELSE w.primary,
                     secondary |-> secondary],
        event |-> result]

\* TouchControls::left
left(w) ==
    [watcher |-> [primary |-> None, secondary |-> None],
     event |-> Some(ControlEvent("PointerLeft", None, None))]

\* MainChart::on_control_event, the camera's pinch_coords: lines 584-597 and
\* 637-639; the other events leave it alone
on_control_event(pinch_coords, event) ==
    IF event.type = "PinchStarted"
    THEN IF Unwrap(event.pos1) # Unwrap(event.pos2)
         THEN Some(<<Min2(Unwrap(event.pos1), Unwrap(event.pos2)),
                     Max2(Unwrap(event.pos1), Unwrap(event.pos2))>>)
         ELSE pinch_coords
    ELSE IF event.type = "PinchFinished" THEN None
    ELSE pinch_coords

\* the ids of the touches of the last PinchStarted, until a PinchFinished
Started(started, watcher, event) ==
    IF event.type = "PinchStarted"
    THEN Some({Unwrap(watcher.primary).id, Unwrap(watcher.secondary).id})
    ELSE IF event.type = "PinchFinished" THEN None
    ELSE started

\* lines 193-198, 212-217, 231-236, 250-255: the listener hands the event the
\* watcher returned, if any, to on_control_event
Listened(c, touches, handled) ==
    [touches |-> touches,
     watcher |-> handled.watcher,
     pinch_coords |-> IF handled.event = None THEN c.pinch_coords
                      ELSE on_control_event(c.pinch_coords, Unwrap(handled.event)),
     started |-> IF handled.event = None THEN c.started
                 ELSE Started(c.started, handled.watcher, Unwrap(handled.event))]

\* the lists of one or two touches out of ids, at any positions: the
\* changedTouches of an event
ChangedTouches(ids) ==
    {<<[id |-> i, pos |-> p]>> : i \in ids, p \in TouchPositions}
    \cup {<<[id |-> i, pos |-> p], [id |-> j, pos |-> q]>> :
            i \in ids, j \in ids, p \in TouchPositions, q \in TouchPositions}
Distinct(touches) == \A i, j \in 1..Len(touches) : i # j => touches[i].id # touches[j].id
OnCanvas(touches) == {id \in TouchIds : touches[id] # None}
\* the touches on the canvas after the changed ones were put down or moved
Placed(touches, changed) ==
    [id \in TouchIds |-> IF TouchOf(changed, id) # None
                         THEN Some(Unwrap(TouchOf(changed, id)).pos) ELSE touches[id]]
\* the touches on the canvas after the changed ones were lifted
Lifted(touches, changed) ==
    [id \in TouchIds |-> IF TouchOf(changed, id) # None THEN None ELSE touches[id]]

\* touchstart: fingers that were not on the canvas are put down
TouchStart ==
    /\ ~panicked
    /\ \E changed \in ChangedTouches(TouchIds \ OnCanvas(controls.touches)) :
        /\ Distinct(changed)
        /\ \E handled \in {down(controls.watcher, changed)} :
            /\ controls' = Listened(controls, Placed(controls.touches, changed), handled)
            /\ ret' = handled.event
        /\ call' = [op |-> "down", touches |-> changed]
    /\ UNCHANGED <<panicked, main_chart, OutsideControls>>

\* touchmove: fingers on the canvas move
TouchMove ==
    /\ ~panicked
    /\ \E changed \in ChangedTouches(OnCanvas(controls.touches)) :
        /\ Distinct(changed)
        /\ \A i \in 1..Len(changed) : Some(changed[i].pos) # controls.touches[changed[i].id]
        /\ \E handled \in {moved(controls.watcher, changed)} :
            /\ controls' = Listened(controls, Placed(controls.touches, changed), handled)
            /\ ret' = handled.event
        /\ call' = [op |-> "moved", touches |-> changed]
    /\ UNCHANGED <<panicked, main_chart, OutsideControls>>

\* touchend: fingers on the canvas are lifted where they are
TouchEnd ==
    /\ ~panicked
    /\ \E changed \in ChangedTouches(OnCanvas(controls.touches)) :
        /\ Distinct(changed)
        /\ \A i \in 1..Len(changed) : Some(changed[i].pos) = controls.touches[changed[i].id]
        /\ \E handled \in {up(controls.watcher, changed)} :
            /\ controls' = Listened(controls, Lifted(controls.touches, changed), handled)
            /\ ret' = handled.event
        /\ call' = [op |-> "up", touches |-> changed]
    /\ UNCHANGED <<panicked, main_chart, OutsideControls>>

\* touchcancel: the browser takes fingers on the canvas away
TouchCancel ==
    /\ ~panicked
    /\ \E changed \in ChangedTouches(OnCanvas(controls.touches)) :
        /\ Distinct(changed)
        /\ \A i \in 1..Len(changed) : Some(changed[i].pos) = controls.touches[changed[i].id]
        /\ \E handled \in {left(controls.watcher)} :
            /\ controls' = Listened(controls, Lifted(controls.touches, changed), handled)
            /\ ret' = handled.event
        /\ call' = [op |-> "left", touches |-> changed]
    /\ UNCHANGED <<panicked, main_chart, OutsideControls>>

(***************************************************************************)
(* Specifications                                                          *)
(***************************************************************************)
InitIdle == call = NoCall /\ ret = None /\ panicked = FALSE

\* the range-indexed series: DataSet::new, then any queries
InitDS == InitDataSet /\ InitUiIdle /\ InitAnimIdle /\ InitScaleIdle /\ InitGridIdle /\ InitChartIdle /\ InitIdle
NextDataSet ==
    \/ DataSetNew
    \/ BinSearchLeftBound
    \/ BinSearchRightBound
    \/ BinSearch
    \/ SliceByCoord
SpecDataSet == InitDS /\ [][NextDataSet]_vars

\* the motion primitive: AnimatedNumber::new or ::custom, then any calls
InitAnim ==
    /\ InitDataSet /\ InitUiIdle /\ InitScaleIdle /\ InitGridIdle /\ InitChartIdle
    /\ \E initial_value \in AnimValues :
        \/ /\ n = new(initial_value)
           /\ call = [op |-> "new", initial_value |-> initial_value]
           /\ fresh = Some(initial_value)
        \/ \E dt1_us \in Durations, dt2_us \in Durations :
            /\ n = custom(initial_value, dt1_us, dt2_us)
            /\ call = [op |-> "custom", initial_value |-> initial_value]
            /\ fresh = Some(initial_value)
    /\ ANIMATED_NUMBERS_COUNT = 1 /\ clock = 0
    /\ ret = None /\ panicked = FALSE
NextAnim == GetValue \/ SetValue \/ SetValueNone
SpecAnim == InitAnim /\ [][NextAnim]_vars

\* the motion primitive with the durations of AnimatedNumber::new, at the
\* times of test_animated_number
InitAnimTest ==
    /\ InitDataSet /\ InitUiIdle /\ InitScaleIdle /\ InitGridIdle /\ InitChartIdle
    /\ \E initial_value \in AnimValues :
        /\ n = new(initial_value)
        /\ call = [op |-> "new", initial_value |-> initial_value]
        /\ fresh = Some(initial_value)
    /\ ANIMATED_NUMBERS_COUNT = 1 /\ clock = 0
    /\ ret = None /\ panicked = FALSE
NextAnimTest == TestGetValue \/ TestSetValue \/ SetValueNone
SpecAnimTest == InitAnimTest /\ [][NextAnimTest]_vars

\* the logarithmic scale: LogScale::new on a content whose global ranges are
\* not empty, then any reframes and queries
InitLogScale ==
    /\ InitDataSet /\ InitUiIdle /\ InitAnimIdle /\ InitGridIdle /\ InitChartIdle
    /\ \E global_coord_min \in ScaleCoords, global_coord_max \in ScaleCoords,
          global_value_min \in ScaleGlobalMins :
        \E global_value_max \in LogValues(global_value_min) :
            /\ global_coord_min < global_coord_max
            /\ global_value_min < global_value_max
            /\ log_scale = LogScaleNew(global_coord_min, global_coord_max,
                                       global_value_min, global_value_max)
            /\ call = [op |-> "LogScale::new"]
    /\ linear_scale = LinearScaleNew(0, 1, 0, 9000) /\ scale_kind = "log"
    /\ ret = None /\ panicked = FALSE
NextLogScale == Reframe \/ NormalizeValue
SpecLogScale == InitLogScale /\ [][NextLogScale]_vars

\* a scale of either variant, built on a content whose global ranges are not
\* empty, then any reframes and coordinate conversions
InitScale ==
    /\ InitDataSet /\ InitUiIdle /\ InitAnimIdle /\ InitGridIdle /\ InitChartIdle
    /\ \E global_coord_min \in ScaleCoords, global_coord_max \in ScaleCoords :
        /\ global_coord_min < global_coord_max
        /\ log_scale = LogScaleNew(global_coord_min, global_coord_max, 0, 9000)
        /\ linear_scale = LinearScaleNew(global_coord_min, global_coord_max, 0, 9000)
    /\ scale_kind \in {"log", "linear"}
    /\ call = [op |-> "Scale::new"]
    /\ ret = None /\ panicked = FALSE
NextScale == Reframe \/ LinearReframe \/ NormalizeCoord \/ DenormalizeCoord
SpecScale == InitScale /\ [][NextScale]_vars

\* the tick generator: Grid::new, then any get_ticks calls, the clock never
\* running backwards
InitGrid ==
    /\ InitDataSet /\ InitUiIdle /\ InitAnimIdle /\ InitScaleIdle /\ InitChartIdle
    /\ \E min_period \in GridMinPeriods :
        /\ grid = GridNew(min_period)
        /\ call = [op |-> "Grid::new", min_period |-> min_period]
    /\ ret = <<>> /\ panicked = FALSE
NextGrid == GetTicks
SpecGrid == InitGrid /\ [][NextGrid]_vars

\* the content of a chart: Content::new, then any calls of
\* parse_and_add_data_set
InitContent ==
    /\ InitDataSet /\ InitUiIdle /\ InitAnimIdle /\ InitScaleIdle /\ InitGridIdle /\ InitChartIdle
    /\ call = [op |-> "Content::new"]
    /\ ret = <<>> /\ panicked = FALSE
NextContent == ParseAndAddDataSet
SpecContent == InitContent /\ [][NextContent]_vars

\* a chart: create_main, then any clicks on the legend and any moves of the
\* pointer over the chart
InitChart ==
    /\ InitDataSet /\ InitUiIdle /\ InitAnimIdle /\ InitScaleIdle /\ InitGridIdle /\ InitChartIdle
    /\ call = NoCall /\ ret = <<>> /\ panicked = FALSE
NextChart == CreateMain \/ ToggleDataSet \/ TooltipDraw
SpecChart == InitChart /\ [][NextChart]_vars

\* the camera of a chart create_main has made, then any zooms and moves
InitCamera ==
    /\ InitDataSet /\ InitUiIdle /\ InitGridIdle /\ n = new(Zero) /\ fresh = Some(Zero)
    /\ ANIMATED_NUMBERS_COUNT = 1 /\ clock = 0
    /\ tooltip = [visible |-> FALSE, matched_coord |-> None]
    /\ \E raw \in CameraRawParams, auto_log_scale_threshold \in Thresholds :
        \E params \in {ChartParamsFrom(ContentNew, raw, 1)} :
            /\ ~IsErr(params.ret)
            /\ \E chart \in {MainChartOf(params.content, auto_log_scale_threshold)} :
                /\ content = params.content
                /\ log_scale = chart.log_scale
                /\ linear_scale = chart.linear_scale
                /\ scale_kind = chart.scale_kind
                /\ camera = chart.camera
            /\ call = [op |-> "create_main", raw_params |-> raw,
                       auto_log_scale_threshold |-> auto_log_scale_threshold]
    /\ charts = 1 /\ ret = Ok /\ panicked = FALSE
NextCamera == ZoomByCoords \/ MoveTo
SpecCamera == InitCamera /\ [][NextCamera]_vars

\* create_main of a chart on a LinearScale whose camera has rows of ticks of
\* the two sizes given
InitFrames(coord_ticks_height, value_ticks_width) ==
    /\ InitDataSet /\ InitUiIdle /\ InitGridIdle /\ n = new(Zero) /\ fresh = Some(Zero)
    /\ ANIMATED_NUMBERS_COUNT = 1 /\ clock = 0
    /\ tooltip = [visible |-> FALSE, matched_coord |-> None]
    /\ \E raw \in ShootRawParams, auto_log_scale_threshold \in Thresholds :
        \E params \in {ChartParamsFrom(ContentNew, raw, 1)} :
            /\ ~IsErr(params.ret)
            /\ \E chart \in {MainChartOf(params.content, auto_log_scale_threshold)} :
                /\ chart.scale_kind = "linear"
                /\ content = params.content
                /\ log_scale = chart.log_scale
                /\ linear_scale = chart.linear_scale
                /\ scale_kind = chart.scale_kind
                /\ camera = [chart.camera EXCEPT
                                !.coord_ticks_height = coord_ticks_height,
                                !.value_ticks_width = value_ticks_width]
            /\ call = [op |-> "create_main", raw_params |-> raw,
                       auto_log_scale_threshold |-> auto_log_scale_threshold]
    /\ charts = 1 /\ ret = <<>> /\ panicked = FALSE

\* a camera that draws no ticks or both rows of them, then any re-framings,
\* zooms and frames
InitShoot == \E ticks \in {0, 1} : InitFrames(ticks, ticks)
NextShoot == UpdateByContent \/ ZoomByCoords \/ Shoot
SpecShoot == InitShoot /\ [][NextShoot]_vars

\* a camera that draws both rows of ticks, then any re-framings, frames and
\* queries of its geometry
InitGeometry == InitFrames(1, 1)
NextGeometry == UpdateByContent \/ Shoot \/ GetCoordTicks \/ GetContentScreenArea
SpecGeometry == InitGeometry /\ [][NextGeometry]_vars

\* a chart on a LinearScale as MainChart::new and ensure_listeners_are_set_up
\* leave it, its first frame requested; then any presses, moves and clicks
\* on its legend, and the frames drawn
InitMainChart ==
    /\ InitDataSet /\ InitGridIdle /\ n = new(Zero) /\ fresh = Some(Zero)
    /\ controls = NoControls
    /\ ANIMATED_NUMBERS_COUNT = 1 /\ clock = 0
    /\ tooltip = [visible |-> FALSE, matched_coord |-> None]
    /\ \E raw \in MainChartRawParams, auto_log_scale_threshold \in Thresholds :
        \E params \in {ChartParamsFrom(ContentNew, raw, 1)} :
            /\ ~IsErr(params.ret)
            /\ \E chart \in {MainChartOf(params.content, auto_log_scale_threshold)} :
                /\ chart.scale_kind = "linear"
                /\ content = params.content
                /\ log_scale = chart.log_scale
                /\ linear_scale = chart.linear_scale
                /\ scale_kind = chart.scale_kind
                /\ camera = chart.camera
                /\ main_chart = request_animation_frame(
                       MainChartNew(params.content,
                                    Focus(F64(params.content.global_coord_min),
                                          F64(params.content.global_coord_max),
                                          F64(params.content.global_value_min),
                                          F64(params.content.global_value_max))))
            /\ call = [op |-> "create_main", pos |-> None, time_us |-> 0]
    /\ charts = 1 /\ ret = <<>> /\ panicked = FALSE
NextMainChart == PointerDown \/ PointerMoved \/ PointerUp \/ PointerClicked \/ Draw
SpecMainChart == InitMainChart /\ [][NextMainChart]_vars

\* a touch device with no finger on the canvas, then any touch events
InitControls ==
    /\ InitDataSet /\ InitAnimIdle /\ InitScaleIdle /\ InitGridIdle /\ InitChartIdle
    /\ main_chart = NoMainChart /\ controls = NoControls
    /\ call = [op |-> "new", touches |-> <<>>] /\ ret = None /\ panicked = FALSE
NextControls == TouchStart \/ TouchMove \/ TouchEnd \/ TouchCancel
SpecControls == InitControls /\ [][NextControls]_vars

(***************************************************************************)
(* Properties of the range-indexed series (SpecDataSet)                    *)
(***************************************************************************)
\* the indices, counted from 0, of the points with coord_start <= coord <= coord_end
IndicesWithin(data, coord_start, coord_end) ==
    {i \in 0..(Len(data) - 1) : coord_start <= At(data, i) /\ At(data, i) <= coord_end}

SetMin(S) == CHOOSE i \in S : \A j \in S : i <= j
SetMax(S) == CHOOSE i \in S : \A j \in S : i >= j

\* the smallest index whose coord is >= x, if any
FirstAtOrAfter(data, x) ==
    LET S == {i \in 0..(Len(data) - 1) : At(data, i) >= x}
    IN IF S = {} THEN None ELSE Some(SetMin(S))

\* the largest index whose coord is <= x, if any
LastAtOrBefore(data, x) ==
    LET S == {i \in 0..(Len(data) - 1) : At(data, i) <= x}
    IN IF S = {} THEN None ELSE Some(SetMax(S))

\* C1: on a sorted series and for coord_start <= coord_end, a sub-range
\* returned by slice_by_coord is a contiguous range of indices that holds
\* exactly the points with coord_start <= coord <= coord_end; on the series
\* 1, 2, 2, 4, 5, 6, 7 the bounds 1.5 and 4.2 give the points at 2, 2, 4.
C1_SliceHoldsExactlyThePointsWithin ==
    (call.op = "slice_by_coord" /\ call.coord_start <= call.coord_end /\ IsSome(ret)) =>
        /\ 0 <= SliceFrom(ret) /\ SliceFrom(ret) <= SliceTo(ret)
        /\ SliceTo(ret) <= Len(data_points)
        /\ \A i \in 0..(Len(data_points) - 1) :
            (SliceFrom(ret) <= i /\ i < SliceTo(ret))
                <=> i \in IndicesWithin(data_points, call.coord_start, call.coord_end)
        /\ (data_points = ScenarioSeries /\ call.coord_start = 15 /\ call.coord_end = 42)
            => SlicePoints(data_points, ret) = <<20, 20, 40>>

\* the scenario of C1 has been run and returned a sub-range
C1_Witness ==
    /\ data_points = ScenarioSeries
    /\ call.op = "slice_by_coord" /\ call.coord_start = 15 /\ call.coord_end = 42
    /\ IsSome(ret)

\* C2: slice_by_coord(coord_start, coord_end) with coord_start <= coord_end
\* returns None, without panicking, whenever no point of the series has its
\* coord within the bounds.
C2_NoneWhenNoPointWithin ==
    (/\ call.op = "slice_by_coord"
     /\ call.coord_start <= call.coord_end
     /\ IndicesWithin(data_points, call.coord_start, call.coord_end) = {})
        => (~panicked /\ ret = None)

\* C3: on a sorted series bin_search_left_bound(x) returns the smallest index
\* whose coord is >= x, the first point of a run of equal coords, and None
\* exactly when there is no such index; on the empty series it returns None.
C3_LeftBoundIsFirstAtOrAfter ==
    /\ call.op = "bin_search_left_bound" => ret = FirstAtOrAfter(data_points, call.x)
    /\ \A x \in QueryCoords : bin_search_left_bound(<<>>, x) = None

\* the left bound found is the first point of a run of equal coords that does
\* not start the series
C3_Witness ==
    /\ call.op = "bin_search_left_bound" /\ IsSome(ret)
    /\ Unwrap(ret) > 0 /\ Unwrap(ret) + 1 < Len(data_points)
    /\ At(data_points, Unwrap(ret)) = call.x
    /\ At(data_points, Unwrap(ret) + 1) = call.x

\* C4: on a sorted series bin_search_right_bound(x) returns the largest index
\* whose coord is <= x, the last point of a run of equal coords, and None
\* exactly when there is no such index; on the empty series it returns None.
C4_RightBoundIsLastAtOrBefore ==
    /\ call.op = "bin_search_right_bound" => ret = LastAtOrBefore(data_points, call.x)
    /\ \A x \in QueryCoords : bin_search_right_bound(<<>>, x) = None

\* the right bound found is the last point of a run of equal coords that does
\* not end the series
C4_Witness ==
    /\ call.op = "bin_search_right_bound" /\ IsSome(ret)
    /\ Unwrap(ret) > 0 /\ Unwrap(ret) + 1 < Len(data_points)
    /\ At(data_points, Unwrap(ret)) = call.x
    /\ At(data_points, Unwrap(ret) - 1) = call.x

\* C5: DataSet::new on an empty point list returns a DataSet, on which the
\* three searches and slice_by_coord return None.
C5_EmptyDataSetIsBuilt ==
    (call.op = "DataSet::new" /\ call.points = <<>>) =>
        /\ ~panicked /\ ds_built
        /\ \A x \in QueryCoords :
            /\ bin_search_left_bound(data_points, x) = None
            /\ bin_search_right_bound(data_points, x) = None
            /\ bin_search(data_points, x) = None
            /\ \A y \in QueryCoords : slice_by_coord(data_points, x, y) = None

(***************************************************************************)
(* Properties of the motion primitive (SpecAnim, SpecAnimTest)             *)
(***************************************************************************)
\* C6: set_value(target, Some(t)) leaves get_value(t) as it was just before
\* the call, whether n was settled, accelerating or at constant velocity.
C6_NoJumpAtRetarget ==
    [][(call'.op = "set_value" /\ IsSome(call'.time_us)) =>
          get_value(n', Unwrap(call'.time_us)).ret
              = get_value(n, Unwrap(call'.time_us)).ret]_vars

\* n has been re-targeted in flight, from a position strictly between two values
C6_Witness ==
    /\ call.op = "set_value" /\ IsSome(call.time_us)
    /\ n.v0 # Zero /\ n.x0[2] # 1 /\ n.x0 # n.x1

\* k * dt1 * dt1 / 2 + v0 * dt1 + c * dt2
TotalDistance(m) ==
    RAdd(RAdd(RDiv(RMul(RMul(m.k, R(m.dt1)), R(m.dt1)), R(2)), RMul(m.v0, R(m.dt1))),
         RMul(m.c, R(m.dt2)))

\* C7: while n is in flight its coefficients make the normalized distance of
\* the two phases exactly 1, so the motion reaches x1 at t0 + dt1 + dt2;
\* get_value returns x1 at that time and at every later time, and a
\* get_value that leaves n settled has returned x1.
C7_ArrivesAtTarget ==
    /\ n.t0 # None =>
        /\ TotalDistance(n) = One
        /\ Interpolate(n, ConstDistance(n, n.dt1 + n.dt2)) = n.x1
        /\ \A t \in Times :
            t >= Unwrap(n.t0) + n.dt1 + n.dt2 =>
                /\ get_value(n, t).ret = n.x1
                /\ get_value(n, t).n.t0 = None
    /\ (call.op = "get_value" /\ n.t0 = None) => ret = Some(n.x1)

\* a motion that started with a carried-over velocity has arrived
C7_Witness ==
    /\ call.op = "get_value" /\ n.t0 = None /\ ret = Some(n.x1)
    /\ n.v0 # Zero /\ n.x0 # n.x1 /\ n.k # Zero

\* C8: a settled AnimatedNumber returns its end value at every time; it is
\* settled, at its initial value, until set_value is first called, and it is
\* settled at v right after set_value(v, None).
C8_SettledReturnsEndValue ==
    /\ n.t0 = None =>
        \A t \in Times : get_value(n, t).ret = n.x1 /\ get_value(n, t).n = n
    /\ IsSome(fresh) =>
        /\ n.t0 = None /\ get_end_value(n) = Unwrap(fresh)
        /\ call.op = "get_value" => ret = fresh
    /\ (call.op = "set_value" /\ call.time_us = None) =>
        /\ n.t0 = None
        /\ \A t \in Times : get_value(n, t).ret = call.new_value

\* n was snapped to another value after a motion had been started
C8_Witness ==
    /\ call.op = "set_value" /\ call.time_us = None
    /\ n.k # Zero /\ n.x0 # n.x1 /\ n.x1 = call.new_value /\ n.t0 = None

\* b is a or c or lies between them
Between(a, b, c) == (RLe(a, b) /\ RLe(b, c)) \/ (RLe(c, b) /\ RLe(b, a))

\* C28: while n is in flight, whatever velocity set_value has carried over,
\* the velocity of the acceleration phase starts and ends at or above 0 in
\* the direction of x1; at the times t0 <= t1 <= t2 get_value(t1) lies
\* between x0 and x1 and get_value(t2) between get_value(t1) and x1; and the
\* value a get_value call has returned lies between x0 and x1.
C28_NeverOvershoots ==
    /\ n.t0 # None =>
        /\ RLe(Zero, n.v0) /\ RLe(Zero, n.c)
        /\ \A t1 \in Times, t2 \in Times :
            (Unwrap(n.t0) <= t1 /\ t1 <= t2) =>
                /\ Between(n.x0, get_value(n, t1).ret, n.x1)
                /\ Between(get_value(n, t1).ret, get_value(n, t2).ret, n.x1)
    /\ (call.op = "get_value" /\ fresh = None) => Between(n.x0, Unwrap(ret), n.x1)

\* a motion re-targeted in flight, its velocity carried over, was queried on
\* its way: the value is strictly between x0 and x1
C28_Witness ==
    /\ call.op = "get_value" /\ n.t0 # None
    /\ RLt(Zero, n.v0) /\ n.x0 # n.x1
    /\ Unwrap(ret) # n.x0 /\ Unwrap(ret) # n.x1

\* |a - b| <= 0.00005: equal to the four decimals given
Approx(a, b) == RLe(RAbs(RSub(a, b)), <<1, 20000>>)

\* new(1.0) followed by set_value(0.0, Some(1_000_000))
ScenarioStart == set_value(new(One), Zero, Some(Us(1000000))).n

\* C9: with the durations of AnimatedNumber::new, after new(1.0) and
\* set_value(0.0, Some(1_000_000)): get_value(1_000_000) = 1.0,
\* get_value(1_200_000) is about 0.9216, get_value(1_500_000) is about 0.5882
\* and get_value(2_000_000) = 0.0.
C9_DocumentedMotionProfile ==
    [][(n = ScenarioStart /\ call'.op = "get_value") =>
          LET value == Unwrap(ret')
          IN /\ call'.time_us = Us(1000000) => value = One
             /\ call'.time_us = Us(1200000) => Approx(value, <<9216, 10000>>)
             /\ call'.time_us = Us(1500000) => Approx(value, <<5882, 10000>>)
             /\ call'.time_us = Us(2000000) => value = Zero]_vars

(***************************************************************************)
(* Properties of the logarithmic scale (SpecLogScale)                      *)
(***************************************************************************)
\* C10: after LogScale::new and after any successful reframes,
\* normalize_value(global minimum) is finite and equal to 0: the log base
\* stays the logarithm at the global minimum.
C10_GlobalMinNormalizesToZero ==
    ~panicked =>
        /\ Finite(LogScaleNormalizeValue(log_scale, log_scale.value_global_min))
        /\ LogScaleNormalizeValue(log_scale, log_scale.value_global_min) = Zero
        /\ log_scale.value_log_base = MIN_LOG_VALUE

(***************************************************************************)
(* Properties of the two scales (SpecScale)                                *)
(***************************************************************************)
\* C11: reframe, on either variant, panics exactly when coord_max = coord_min
\* or value_max = value_min, and a reframe that panics leaves every field of
\* the scale as it was.
C11_ZeroRangeReframePanicsUntouched ==
    [][call'.op = "reframe" =>
          /\ panicked' <=> (\/ call'.coord_max = call'.coord_min
                            \/ call'.value_max = call'.value_min)
          /\ panicked' => (log_scale' = log_scale /\ linear_scale' = linear_scale)]_vars

\* a reframe on an empty value range has panicked after a reframe that succeeded
C11_Witness ==
    /\ panicked /\ call.op = "reframe"
    /\ call.value_max = call.value_min /\ call.coord_max # call.coord_min
    /\ Scale.value_min # 0

\* C12: on either variant, after construction and after any successful
\* reframe, normalize_coord(coord_min) = 0, normalize_coord(coord_max) = 1 and
\* denormalize_coord(normalize_coord(x)) = x for every x within the window.
C12_CoordRoundTrip ==
    /\ normalize_coord(R(Scale.coord_min)) = Zero
    /\ normalize_coord(R(Scale.coord_max)) = One
    /\ \A x \in CoordQueries :
        (RLe(R(Scale.coord_min), x) /\ RLe(x, R(Scale.coord_max)))
            => denormalize_coord(normalize_coord(x)) = x
    /\ (/\ call.op = "normalize_coord"
        /\ RLe(R(Scale.coord_min), call.x) /\ RLe(call.x, R(Scale.coord_max)))
            => denormalize_coord(Unwrap(ret)) = call.x

\* a coord strictly inside the window of a reframed linear scale was normalized
C12_Witness ==
    /\ scale_kind = "linear" /\ call.op = "normalize_coord"
    /\ ret = Some(Half) /\ call.x # Half /\ Scale.value_max # 9000

(***************************************************************************)
(* Properties of the tick generator (SpecGrid)                             *)
(***************************************************************************)
\* the ticks of every generation of the grid, before the merge, for the
\* window and time of the last call
RawTicks ==
    CollectTicks(grid, 1, call.time_us, call.normalized_min_value,
                 call.normalized_max_value).ticks

\* the ticks generation k of the grid produces for the window of the last call
GenerationTicks(k) ==
    TickLoop(TickStart(grid.grid_base, grid.generations[k].period,
                       call.normalized_min_value),
             grid.generations[k].period, Zero, Zero,
             call.normalized_min_value, call.normalized_max_value)

\* C13: a get_ticks call returns at most 4 * max_ticks ticks, the ticks of
\* every generation still in the list counted.
C13_TickCountWithinFactor ==
    call.op = "get_ticks" => Len(ret) <= 4 * call.max_ticks

\* C14: every tick returned by get_ticks comes from a generation of the
\* list, and lies within [normalized_min_value - period,
\* normalized_max_value + period] for the period of each generation that
\* produced it.
C14_TicksWithinWindow ==
    call.op = "get_ticks" =>
        /\ LET raw == RawTicks
               produced == {raw[r].normalized_value : r \in DOMAIN raw}
           IN \A i \in DOMAIN ret : ret[i].normalized_value \in produced
        /\ \A k \in DOMAIN grid.generations :
            LET mine == GenerationTicks(k)
                positions == {mine[j].normalized_value : j \in DOMAIN mine}
                period == grid.generations[k].period
            IN \A i \in DOMAIN ret :
                ret[i].normalized_value \in positions
                => /\ RLe(RSub(call.normalized_min_value, period), ret[i].normalized_value)
                   /\ RLe(ret[i].normalized_value, RAdd(call.normalized_max_value, period))

\* several generations have produced ticks for a window that starts left of
\* grid_base
C14_Witness ==
    /\ call.op = "get_ticks" /\ Len(grid.generations) > 1 /\ Len(ret) > 3
    /\ RLt(call.normalized_min_value, grid.grid_base)
    /\ \A k \in DOMAIN grid.generations : Len(GenerationTicks(k)) > 0

\* C15: the ticks returned by get_ticks are strictly increasing in position;
\* of the ticks of the generations at one position exactly one is returned,
\* and where several coincide its alpha is 1.0 if one of them has the end
\* alpha 1.0.
C15_TicksStrictlyOrdered ==
    call.op = "get_ticks" =>
        LET raw == RawTicks
        IN /\ \A i \in DOMAIN ret :
                i < Len(ret) => RLt(ret[i].normalized_value, ret[i + 1].normalized_value)
           /\ \A r \in DOMAIN raw :
                LET here == {q \in DOMAIN raw :
                                raw[q].normalized_value = raw[r].normalized_value}
                    kept == {i \in DOMAIN ret :
                                ret[i].normalized_value = raw[r].normalized_value}
                IN /\ Cardinality(kept) = 1
                   /\ (Cardinality(here) > 1 /\ \E q \in here : raw[q].end_alpha = {One})
                        => \A i \in kept : ret[i].alpha = One
           /\ \A i \in DOMAIN ret : \E r \in DOMAIN raw :
                raw[r].normalized_value = ret[i].normalized_value

\* ticks of two generations coincided, none of them fully visible, and the
\* one returned has alpha 1.0
C15_Witness ==
    /\ call.op = "get_ticks" /\ Len(grid.generations) > 1
    /\ LET raw == RawTicks
       IN /\ Len(raw) > Len(ret)
          /\ \E i \in DOMAIN ret :
                /\ ret[i].alpha = One
                /\ \A r \in DOMAIN raw :
                    raw[r].normalized_value = ret[i].normalized_value
                        => RLt(raw[r].alpha, One)

\* C20: get_ticks never leaves the generation list empty, and it removes a
\* generation only on a call whose period is the current one and at whose
\* time the alpha of the generation is 0.
C20_LastGenerationIsKept ==
    [][call'.op = "get_ticks" =>
          /\ Len(grid'.generations) >= 1
          /\ \A k \in DOMAIN grid.generations :
                (\A j \in DOMAIN grid'.generations :
                    grid'.generations[j].period # grid.generations[k].period)
                => /\ grid.current_period
                        = ChoosePeriod(grid, RSub(call'.normalized_max_value,
                                                  call'.normalized_min_value),
                                       call'.max_ticks)
                   /\ get_value(grid.generations[k].alpha, call'.time_us).ret = Zero]_vars

\* the generations of the list whose period is current_period
CurrentGenerations(g) ==
    {k \in DOMAIN g.generations : g.generations[k].period = g.current_period}

\* C21: after every get_ticks call exactly one generation of the list has
\* the period current_period, the period computed for that call, and no two
\* generations share a period; the alpha of that generation targets 1.0 and
\* the alpha of every other generation targets 0.0.
C21_ExactlyOneCurrentGeneration ==
    call.op = "get_ticks" =>
        /\ grid.current_period
              = ChoosePeriod(grid, RSub(call.normalized_max_value, call.normalized_min_value),
                             call.max_ticks)
        /\ Cardinality(CurrentGenerations(grid)) = 1
        /\ \A j \in DOMAIN grid.generations, k \in DOMAIN grid.generations :
              j # k => grid.generations[j].period # grid.generations[k].period
        /\ \A k \in DOMAIN grid.generations :
              get_end_value(grid.generations[k].alpha)
                  = IF k \in CurrentGenerations(grid) THEN One ELSE Zero

\* the lattice points grid_base + j * period with
\* normalized_min_value <= point <= normalized_max_value
LatticeWithin(grid_base, period, normalized_min_value, normalized_max_value) ==
    {point \in {RAdd(grid_base, RMul(R(j), period)) :
                   j \in (RTrunc(RDiv(RSub(normalized_min_value, grid_base), period)) - 1)
                         ..(RTrunc(RDiv(RSub(normalized_max_value, grid_base), period)) + 1)} :
        RLe(normalized_min_value, point) /\ RLe(point, normalized_max_value)}

\* C22: the positions of the ticks returned by get_ticks are exactly the
\* lattice points grid_base + j * period of the generations of the list that
\* lie in the window from normalized_min_value to normalized_max_value: a
\* lattice point at normalized_min_value is returned and none is skipped.
C22_TicksAreTheLatticeInWindow ==
    call.op = "get_ticks" =>
        {ret[i].normalized_value : i \in DOMAIN ret}
            = UNION {LatticeWithin(grid.grid_base, grid.generations[k].period,
                                   call.normalized_min_value, call.normalized_max_value) :
                       k \in DOMAIN grid.generations}

\* the generations of the list that are not the current one
NonCurrentGenerations(g) ==
    {k \in DOMAIN g.generations : g.generations[k].period # g.current_period}

\* a fade that started at t0 is over at time_us: t0 + dt1 + dt2 has come, or
\* the alpha was set without a fade
FadeIsOver(alpha, time_us) ==
    alpha.t0 = None \/ time_us >= Unwrap(alpha.t0) + alpha.dt1 + alpha.dt2

\* C23: a get_ticks call with an unchanged period, at a time later than the
\* call before it, removes every generation that is not the current one and
\* whose fade is over at that time (at once if it was hidden without a fade);
\* when the fade of every such generation is over, the current generation
\* alone remains after the call.
C23_NonCurrentIsPruned ==
    [][(/\ call'.op = "get_ticks"
        /\ call'.time_us > clock
        /\ grid.current_period
              = ChoosePeriod(grid, RSub(call'.normalized_max_value,
                                        call'.normalized_min_value),
                             call'.max_ticks))
       => /\ \A k \in NonCurrentGenerations(grid) :
                FadeIsOver(grid.generations[k].alpha, call'.time_us)
                => \A j \in DOMAIN grid'.generations :
                       grid'.generations[j].period # grid.generations[k].period
          /\ (\A k \in NonCurrentGenerations(grid) :
                 FadeIsOver(grid.generations[k].alpha, call'.time_us))
             => /\ Len(grid'.generations) = 1
                /\ grid'.generations[1].period = grid'.current_period]_vars

(***************************************************************************)
(* Properties of the chart content (SpecContent)                           *)
(***************************************************************************)
\* the points of a data set are strictly increasing by coordinate
StrictlyIncreasing(points) ==
    \A i \in 1..(Len(points) - 1) : points[i].coord < points[i + 1].coord

\* the input of the call just made is one the claim says is rejected
MustBeRejected(c, input) ==
    \/ Len(input.coords) # Len(input.values)
    \/ input.coords = <<>>
    \/ \E i \in DOMAIN c.data_sets : c.data_sets[i].name = input.name
    \/ \E i \in DOMAIN input.coords, j \in DOMAIN input.coords :
           i # j /\ input.coords[i] = input.coords[j]

\* C19: parse_and_add_data_set returns Err and leaves the content as it was
\* (data sets, global bounds, label lengths) when coords and values differ in
\* length, when the data set is empty, when its name is already present and
\* when two of its points share a coordinate; every data set it has accepted
\* is stored strictly increasing by coordinate, whatever the order given.
C19_RejectsAndStoresIncreasing ==
    [][/\ MustBeRejected(content, call') => IsErr(ret')
       /\ IsErr(ret') => content' = content
       /\ \A i \in DOMAIN content'.data_sets :
              StrictlyIncreasing(content'.data_sets[i].data_points)]_vars

\* a data set with a repeated coordinate has been rejected by a content that
\* holds a data set already
C19_Witness ==
    /\ call.op = "parse_and_add_data_set"
    /\ ret = Err("duplicate coordinate found")
    /\ call.coords = <<1, 2, 1>>
    /\ Len(content.data_sets) = 1

(***************************************************************************)
(* Properties of the chart (SpecChart)                                     *)
(***************************************************************************)
\* the global coordinate range or the global value range has no width
ZeroWidth(c) ==
    \/ c.global_coord_max - c.global_coord_min = 0
    \/ c.global_value_max - c.global_value_min = 0

\* C18: create_main makes no chart of data sets whose global coordinate
\* range or global value range has zero width: it returns an error.
C18_ZeroWidthIsRejected ==
    call.op = "create_main" /\ ZeroWidth(ChartParamsFrom(ContentNew, call.raw_params, 1).content)
        => IsErr(ret) /\ charts = 0

\* the coordinates of the points of the data sets that are not hidden
ShownCoords(c) ==
    UNION {{c.data_sets[i].data_points[j].coord : j \in DOMAIN c.data_sets[i].data_points} :
             i \in {k \in DOMAIN c.data_sets : ~Hidden(c.data_sets[k])}}

\* C17: when shown points lie on both sides of the coordinate q under the
\* pointer, the tooltip matches the last shown coordinate at or before q or
\* the first shown coordinate at or after q, whichever is closer to q, and
\* the lower one when they are equally far; a match made with no shown point
\* at or after q is the last shown coordinate.
C17_CloserCandidateIsMatched ==
    call.op = "Tooltip::draw" =>
        LET q == call.coord
            before == {x \in ShownCoords(content) : x <= q}
            after == {x \in ShownCoords(content) : x >= q}
        IN /\ before # {} /\ after # {} =>
                tooltip.matched_coord
                    = Some(IF q - MaxOf(before) <= MinOf(after) - q
                           THEN MaxOf(before) ELSE MinOf(after))
           /\ IsSome(tooltip.matched_coord) =>
                /\ before # {}
                /\ after = {} => tooltip.matched_coord = Some(MaxOf(before))

\* the pointer is half-way between the two points of one data set, at the
\* coordinate of a point of a hidden data set: the lower point is matched
C17_Witness ==
    /\ call.op = "Tooltip::draw" /\ call.coord = 4
    /\ tooltip.matched_coord = Some(2)
    /\ \E i \in DOMAIN content.data_sets :
           /\ Hidden(content.data_sets[i])
           /\ \E j \in DOMAIN content.data_sets[i].data_points :
                  content.data_sets[i].data_points[j].coord = 4

(***************************************************************************)
(* Properties of the camera (SpecCamera)                                   *)
(***************************************************************************)
\* the number of points of the visible data sets with
\* coord_start <= coord <= coord_end
PointsInWindow(c, coord_start, coord_end) ==
    Cardinality(UNION {{<<i, j>> : j \in {k \in DOMAIN c.data_sets[i].data_points :
                                            /\ coord_start <= c.data_sets[i].data_points[k].coord
                                            /\ c.data_sets[i].data_points[k].coord <= coord_end}} :
                         i \in {k \in DOMAIN c.data_sets : Visible(c.data_sets[k])}})

\* the window a zoom or a move asks for
RequestedStart(cam, request) ==
    IF request.op = "zoom_by_coords" THEN request.coord_start
    ELSE MoveStart(cam, request.coord_center)
RequestedEnd(cam, request) ==
    IF request.op = "zoom_by_coords" THEN request.coord_end
    ELSE MoveEnd(cam, request.coord_center)

\* C16: a zoom_by_coords or a move_to whose window holds fewer than 2 points
\* of the visible data sets leaves coord, coord_range, value and value_range
\* as they were: none is re-targeted and no end value changes.
C16_FewPointsIsNoOp ==
    [][/\ call'.op \in {"zoom_by_coords", "move_to"}
       /\ ~panicked'
       /\ PointsInWindow(content, RequestedStart(camera, call'),
                         RequestedEnd(camera, call')) < 2
       => /\ camera'.coord = camera.coord
          /\ camera'.coord_range = camera.coord_range
          /\ camera'.value = camera.value
          /\ camera'.value_range = camera.value_range]_vars

(***************************************************************************)
(* Properties of the frames of the camera (SpecShoot)                      *)
(***************************************************************************)
\* an AnimatedNumber on its way
InMotion(m) == m.t0 # None

\* one of the camera's four AnimatedNumbers is on its way
CameraInMotion(cam) ==
    \/ InMotion(cam.coord) \/ InMotion(cam.coord_range)
    \/ InMotion(cam.value) \/ InMotion(cam.value_range)

\* C24: after any update_by_content, zoom_by_coords, move_to and shoot calls,
\* with shoot called again at a timestamp it was called with, dirty is true
\* whenever coord, coord_range, value or value_range is still in motion: a
\* frame clears dirty only when none of them is unsettled.
C24_DirtyWhileInMotion ==
    CameraInMotion(camera) => camera.dirty

\* a query of the camera's geometry at a timestamp
GeometryQueries == {"get_coord_ticks", "get_content_screen_area"}

\* C25 as stated: asking for the ticks or for the content screen area at a
\* time sync_screen_area was not called for does not crash
C25_OutOfSyncIsNotACrash ==
    [][call'.op \in GeometryQueries /\ call'.time_us # camera.scale_time_us
       => ~panicked']_vars

\* C25: asking for the ticks or for the content screen area at a time other
\* than the one the camera has recorded in scale_time_us panics and leaves
\* the camera and the counter as they were; at the recorded time it does not
\* panic, the window of the screen area stays the one of the last
\* sync_screen_area that polled, and every coordinate tick lies within it.
C25_OutOfSyncPanics ==
    [][call'.op \in GeometryQueries
       => /\ panicked' = (call'.time_us # camera.scale_time_us)
          /\ panicked' => /\ camera' = camera
                          /\ ANIMATED_NUMBERS_COUNT' = ANIMATED_NUMBERS_COUNT
          /\ ~panicked' =>
                /\ camera'.screen_area = camera.screen_area
                /\ camera'.scale_time_us = camera.scale_time_us
                /\ call'.op = "get_coord_ticks" =>
                      \A i \in DOMAIN ret' :
                          /\ RLe(camera.screen_area.coord_min, ret'[i].value)
                          /\ RLe(ret'[i].value, camera.screen_area.coord_max)]_vars

\* the ticks were asked for at a time the camera was not synced for, after a
\* re-target: the call has panicked
C25_Witness ==
    /\ call.op = "get_coord_ticks" /\ panicked
    /\ call.time_us # camera.scale_time_us
    /\ CameraInMotion(camera)

(***************************************************************************)
(* Properties of the frames of a chart (SpecMainChart)                     *)
(***************************************************************************)
\* the AnimatedNumbers a chart owns: those of its coordinate spaces and the
\* alphas of its data sets
OwnedNumbers(chart, c) ==
    {Numbers(chart.camera.control_coord_space)[i] : i \in 1..4}
    \cup {Numbers(chart.preview.coord_space)[i] : i \in 1..4}
    \cup {Numbers(chart.preview.control_coord_space)[i] : i \in 1..4}
    \cup {c.data_sets[i].alpha : i \in DOMAIN c.data_sets}

\* one of them is on its way
Unsettled(chart, c) == \E m \in OwnedNumbers(chart, c) : InMotion(m)

\* a press on the legend is pending
PressPending(chart) == chart.legend.pointer_down_time_us # None

BoundsOfVisible(c) ==
    [coord_min |-> F64(MinOf({data_set.data_points[1].coord :
                                 data_set \in VisibleSets(c)})),
     coord_max |-> F64(MaxOf({data_set.data_points[Len(data_set.data_points)].coord :
                                 data_set \in VisibleSets(c)})),
     value_min |-> F64(MinOf(UNION {{data_set.data_points[i].value :
                                        i \in DOMAIN data_set.data_points} :
                                     data_set \in VisibleSets(c)})),
     value_max |-> F64(MaxOf(UNION {{data_set.data_points[i].value :
                                        i \in DOMAIN data_set.data_points} :
                                     data_set \in VisibleSets(c)}))]

\* the window the four AnimatedNumbers of a coordinate space end on
EndWindow(cs) ==
    [coord_min |-> get_end_value(cs.coord_min), coord_max |-> get_end_value(cs.coord_max),
     value_min |-> get_end_value(cs.value_min), value_max |-> get_end_value(cs.value_max)]

\* C27: on the content of every chart, whatever the order its data sets are
\* stored in and whichever of them are shown, get_min_max (and
\* Camera::update_by_content, which repeats its loop) returns the smallest
\* first coordinate, the largest last coordinate and the smallest and
\* largest value of the data sets whose alpha end value is above 0; the
\* preview of a new chart ends on that window.
C27_BoundsOfVisibleDataSets ==
    /\ get_min_max(content) = BoundsOfVisible(content)
    /\ call.op = "create_main"
       => EndWindow(main_chart.preview.coord_space) = BoundsOfVisible(content)

\* the data sets whose alpha ends on 1.0
Shown(c) == {i \in DOMAIN c.data_sets : get_end_value(c.data_sets[i].alpha) = One}

\* every alpha ends on 0.0 or on 1.0, and one at least on 1.0
EndsShownOrHidden(c) ==
    /\ \A i \in DOMAIN c.data_sets : get_end_value(c.data_sets[i].alpha) \in {Zero, One}
    /\ Shown(c) # {}

\* C30: after DataSet::new and after any clicks and long presses on the
\* legend, every data set's alpha end value is 0.0 or 1.0 and one data set
\* at least has the end value 1.0; a click on the item of the only data set
\* shown leaves it shown and shows every other data set; a long press that
\* fires leaves exactly the data set under the pointer shown.
C30_OneDataSetStaysShown ==
    [][/\ EndsShownOrHidden(content) /\ EndsShownOrHidden(content')
       /\ (/\ call'.op = "PointerClicked"
           /\ main_chart.legend.pointer_down # None
           /\ Shown(content) = {Unwrap(main_chart.legend.pointer_down) + 1})
          => Shown(content') = DOMAIN content.data_sets
       /\ (/\ call'.op = "draw" /\ ~panicked'
           /\ PressPending(main_chart) /\ ~PressPending(main_chart'))
          => Shown(content') = {Unwrap(main_chart.legend.pointer) + 1}]_vars

\* of two data sets the first is the only one shown after a long press, its
\* item has been clicked, and the second is on its way back to 1.0
C30_Witness ==
    /\ call.op = "PointerClicked"
    /\ Len(content.data_sets) = 2
    /\ main_chart.legend.pointer = Some(0)
    /\ ~InMotion(content.data_sets[1].alpha)
    /\ InMotion(content.data_sets[2].alpha)
    /\ content.data_sets[2].alpha.x0 = Zero
    /\ Shown(content) = {1, 2}


(***************************************************************************)
(* Properties of the touch gestures (SpecControls)                         *)
(***************************************************************************)
\* the ids of the two touches the watcher follows, if it follows two
CurrentPair(w) ==
    IF w.primary # None /\ w.secondary # None
    THEN Some({Unwrap(w.primary).id, Unwrap(w.secondary).id})
    ELSE None
\* the ids of the changed touches of the last event
ChangedIds(touches) == {touches[i].id : i \in 1..Len(touches)}
Emitted(event, type) == event # None /\ Unwrap(event).type = type

\* C29: over every sequence of touchstart, touchmove, touchend and
\* touchcancel events, a PinchUpdated is returned only while the last
\* PinchStarted, not yet followed by a PinchFinished, was for the pair of
\* touches the watcher follows now; and the event that ends (or cancels) one
\* of the two touches of a PinchStarted not yet followed by a PinchFinished
\* returns PinchFinished and leaves the camera's pinch_coords at None.
C29_PinchBracketed ==
    [][/\ Emitted(ret', "PinchUpdated") =>
            (controls.started # None /\ controls.started = CurrentPair(controls'.watcher))
       /\ (/\ call'.op \in {"up", "left"}
           /\ controls.started # None
           /\ ChangedIds(call'.touches) \cap Unwrap(controls.started) # {})
          => (Emitted(ret', "PinchFinished") /\ controls'.pinch_coords = None)]_vars
====
